---- MODULE Spec2Model ----
(***************************************************************************)
(* Model of git_commit_mcp.repository_manager.RepositoryManager: the       *)
(* per-repository lock table, the TTL/LRU cache of open repository         *)
(* handles, the clone / open-and-pull / recover state machine of           *)
(* get_or_clone_repository, and the workspace cleanup operations, as run   *)
(* by parallel workers.                                                    *)
(*                                                                         *)
(* A worker's pc names the statement it is executing; the step that leaves *)
(* that pc is the point at which the statement takes effect.  Each step    *)
(* that holds _cache_lock or _lock_manager is one atomic action.           *)
(***************************************************************************)
EXTENDS Integers, Sequences, FiniteSets, TLC

(* ------------------------------ bounds -------------------------------- *)
\* time.time() is read from a clock that ticks from 0 to MaxTime
MaxTime == 2
\* cache_ttl_seconds ranges over 1..MaxTTL
MaxTTL == 1
\* max_cache_size ranges over 1..MaxCacheSize
MaxCacheSize == 1
\* no new call is started for an entry already accessed MaxAccess times
MaxAccess == 2
\* pieces in a URL handed to _build_auth_url
MaxUrlLen == 3
\* pieces in the stderr text of a failed clone
MaxTextLen == 2
\* the rate limiter's capacity ranges over 1..MaxCapacity
MaxCapacity == 2
\* the change tracker finds 0..MaxFiles changed files
MaxFiles == 2

Workers == {"w1", "w2"}

(* ------------------------------ inputs -------------------------------- *)
\* A URL is the sequence of its pieces, the scheme first.
U1 == <<"https://", "host/a.git">>
U2 == <<"https://", "host/b.git">>
U3 == <<"git@", "host:c.git">>

\* credentials=None
NoCred ==
  [auth_type |-> "none", username |-> "", password |-> "", ssh_key |-> "", token |-> ""]
TokenCred ==
  [auth_type |-> "token", username |-> "", password |-> "", ssh_key |-> "", token |-> "T"]
HttpsCred ==
  [auth_type |-> "https", username |-> "bob", password |-> "pw", ssh_key |-> "", token |-> ""]
\* declared variant token, token missing (a username is given instead)
BadTokenCred ==
  [auth_type |-> "token", username |-> "bob", password |-> "", ssh_key |-> "", token |-> ""]
SshCred(k) ==
  [auth_type |-> "ssh", username |-> "", password |-> "", ssh_key |-> k, token |-> ""]

\* What the file system holds at an SSH key path.
KeyFs(k) ==
  CASE k \in {"key_file", "key_file2"} -> "file"
    [] k = "key_dir" -> "dir"
    [] OTHER -> "missing"

(* ------------------------------- state -------------------------------- *)
VARIABLES
  now,                \* time.time()
  cache_ttl_seconds,  \* self.cache_ttl_seconds
  max_cache_size,     \* self.max_cache_size
  cache,              \* self._cache: dict in insertion order, a sequence of entries
  locks,              \* self._locks: repo_id -> Lock object (0: no entry)
  disk,               \* workspace_dir/<repo_id>: [kind, remote]
  ssh_command,        \* os.environ["GIT_SSH_COMMAND"]: the key it names ("" unset)
  wk,                 \* each worker's call frame
  out,                \* what the call that ended in the last step returned or raised
  track,              \* whether the callers keep their results (the tests' results list)
  results,            \* the results kept, per worker
  call,               \* the last direct call of a helper: its arguments and result
  warm,               \* the warm_cache call in progress: its loop state
  capacity,           \* RateLimiter.capacity
  refill_rate,        \* RateLimiter.refill_rate
  buckets,            \* RateLimiter.buckets: client_id -> [tokens, last_refill]
  seen,               \* history: per client, the requests since its bucket was made
  reply,              \* what the last call into auth.py was given and returned
  flow                \* the execute_git_commit_and_push call: its locals and result

limiter == <<capacity, refill_rate, buckets, seen, reply>>
conf == <<cache_ttl_seconds, max_cache_size, track, call, warm, limiter, flow>>
vars == <<now, conf, cache, locks, disk, ssh_command, wk, out, results>>

\* hashlib.sha256(repo_url.encode()).hexdigest()[:16]: the digest is modelled
\* as a tag on the URL, collision-free on the fixture URLs
generate_repo_id(repo_url) == <<"sha256:16">> \o repo_url

AllUrls == {U1, U2, U3}
Ids == {generate_repo_id(u) : u \in AllUrls}

NoDir == [kind |-> "absent", remote |-> <<>>]

\* A worker between calls.
IdleFrame ==
  [pc |-> "idle", op |-> "", url |-> <<>>, id |-> <<>>, cred |-> NoCred,
   lock |-> 0, repo |-> 0, cnt |-> 0, todo |-> {},
   nclone |-> 0, nopen |-> 0, npull |-> 0, ndel |-> 0, failed |-> ""]

\* The end of a call: res is "ok" or the exception raised, ret the handle
\* returned (0: none), hit whether the cache served it and age the age of the
\* entry it served; f is the frame left.
Outcome(w, f, res, ret, hit) ==
  [w |-> w, res |-> res, ret |-> ret, hit |-> hit, age |-> 0, op |-> f.op,
   id |-> f.id, cred |-> f.cred, cnt |-> f.cnt, nclone |-> f.nclone,
   nopen |-> f.nopen, npull |-> f.npull, ndel |-> f.ndel, failed |-> f.failed]

\* no call ended in the last step
NoOut == Outcome("", IdleFrame, "", 0, FALSE)

(* ------------------------- GitCredentials ----------------------------- *)
\* (mutant) validation that accepts everything
validate_nothing(c) == TRUE

\* (mutant) any field that is filled in lets the credentials pass
validate_lenient(c) ==
  \/ c.auth_type = "none"
  \/ c.username # "" \/ c.password # "" \/ c.ssh_key # "" \/ c.token # ""

validate(c) ==
  CASE c.auth_type = "ssh" -> c.ssh_key # ""
    [] c.auth_type = "https" -> ~(c.username = "" \/ c.password = "")
    [] c.auth_type = "token" -> c.token # ""
    [] OTHER -> TRUE

\* str.replace("https://", ""): every occurrence of the piece is dropped
RECURSIVE replace_https(_)
replace_https(s) ==
  IF s = <<>> THEN <<>>
  ELSE IF Head(s) = "https://" THEN replace_https(Tail(s))
       ELSE <<Head(s)>> \o replace_https(Tail(s))

_build_auth_url(repo_url, c) ==
  IF c.auth_type = "none" THEN repo_url
  ELSE IF ~(repo_url # <<>> /\ Head(repo_url) = "https://") THEN repo_url
  ELSE IF c.auth_type = "https" /\ c.username # "" /\ c.password # ""
    THEN <<"https://", c.username, ":", c.password, "@">> \o replace_https(repo_url)
  ELSE IF c.auth_type = "token" /\ c.token # ""
    THEN <<"https://", c.token, "@">> \o replace_https(repo_url)
  ELSE repo_url

(* ---------------------- clone error rewriting ------------------------- *)
\* (mutant) the text is matched as it is, upper case included
lower_keep(p) == p

\* str.lower() on one piece of the text
lower(p) ==
  CASE p \in {"Authentication failed", "AUTHENTICATION FAILED"} -> "authentication failed"
    [] p \in {"Could not resolve host", "COULD NOT RESOLVE HOST"} -> "could not resolve host"
    [] OTHER -> p

\* needle in error_msg.lower()
contains_lower(error_msg, needle) ==
  \E k \in 1..Len(error_msg) : lower(error_msg[k]) = needle

\* the stderr of the GitCommandError that "except GitCommandError as e"
\* raises from e, for the original text error_msg
clone_error_stderr(repo_url, error_msg) ==
  IF contains_lower(error_msg, "authentication failed")
    THEN <<"Authentication failed for ">> \o repo_url
           \o <<". Please check your credentials.">>
  ELSE IF contains_lower(error_msg, "could not resolve host")
    THEN <<"Could not resolve host for ">> \o repo_url
           \o <<". Please check the URL and network connection.">>
  ELSE <<"Failed to clone repository ">> \o repo_url \o <<": ">> \o error_msg

(* ------------------------- CachedRepository --------------------------- *)
\* (mutant) an entry expires as soon as its age reaches the TTL
is_expired_at_ttl(e) == (now - e.last_accessed) >= cache_ttl_seconds

is_expired(e) == (now - e.last_accessed) > cache_ttl_seconds

\* (mutant) an access moves the timestamp but is not counted
update_access_uncounted(e) ==
  [e EXCEPT !.last_accessed = now]

\* (mutant) an access is counted but the timestamp stays
update_access_stale(e) ==
  [e EXCEPT !.access_count = e.access_count + 1]

\* self.last_accessed = time.time(); self.access_count += 1
update_access(e) ==
  [e EXCEPT !.last_accessed = now, !.access_count = e.access_count + 1]

(* ------------------------------ cache --------------------------------- *)
CacheIds == {cache[i].repo_id : i \in 1..Len(cache)}

\* position of repo_id in the dict, 0 when absent
CacheIdx(repo_id) ==
  IF repo_id \in CacheIds
    THEN CHOOSE i \in 1..Len(cache) : cache[i].repo_id = repo_id
    ELSE 0

CacheWithout(ids) == SelectSeq(cache, LAMBDA e : e.repo_id \notin ids)

\* (mutant) the entries are taken in dict order, oldest insertion first
SortPosFifo(i) == i - 1

\* sorted(self._cache.items(), key=last_accessed): the sort is stable, so
\* ties keep dict order.  SortPos(i) is the number of entries sorted before i.
SortPos(i) ==
  Cardinality({j \in 1..Len(cache) :
      \/ cache[j].last_accessed < cache[i].last_accessed
      \/ cache[j].last_accessed = cache[i].last_accessed /\ j < i})

\* sorted_entries[:num_to_remove]
LruVictims ==
  IF Len(cache) >= max_cache_size
    THEN {cache[i].repo_id : i \in {j \in 1..Len(cache) :
                                     SortPos(j) < Len(cache) - max_cache_size + 1}}
    ELSE {}

ExpiredIds == {cache[i].repo_id : i \in {j \in 1..Len(cache) : is_expired(cache[j])}}

\* self._cache[repo_id] = cached_repo: an existing key keeps its position
CachePut(e) ==
  IF e.repo_id \in CacheIds
    THEN [cache EXCEPT ![CacheIdx(e.repo_id)] = e]
    ELSE Append(cache, e)

(* ------------------------- object identities -------------------------- *)
\* Repo and Lock objects are named by numbers.  Objects of different
\* repositories are never compared, so a name is read together with its
\* repo_id; a new object takes the smallest number that no live reference to
\* an object of that repository holds.
Smallest(used) == CHOOSE n \in 1..(Cardinality(used) + 1) :
                    n \notin used /\ \A m \in 1..(n - 1) : m \in used

UsedHandles(repo_id) ==
  {cache[i].repo : i \in {j \in 1..Len(cache) : cache[j].repo_id = repo_id}}
    \cup {wk[w].repo : w \in {v \in Workers : wk[v].id = repo_id}}
    \cup {results[w].ret : w \in {v \in Workers : results[v].res = "ok" /\ results[v].id = repo_id}}
    \cup (IF out.res = "ok" /\ out.id = repo_id THEN {out.ret} ELSE {})
NewHandle(repo_id) == Smallest(UsedHandles(repo_id) \ {0})

UsedLocks(repo_id) ==
  {locks[repo_id]} \cup {wk[w].lock : w \in {v \in Workers : wk[v].id = repo_id}}
NewLock(repo_id) == Smallest(UsedLocks(repo_id) \ {0})

\* the statements executed inside "with lock:"
HoldingPCs ==
  {"open", "pull", "recover", "clone", "evict_expired", "evict_lru", "insert",
   "cw_rm", "cw_cache", "cw_locks"}

Holds(w) == wk[w].pc \in HoldingPCs

\* (mutant) a lock that never blocks
LockFreeAlways(repo_id, l) == TRUE

\* (mutant) one lock for the whole manager instead of one per repository
LockFreeGlobal(repo_id, l) == \A w \in Workers : ~Holds(w)

\* (mutant) a lock whose table entry was removed can no longer be acquired
LockFreeListed(repo_id, l) ==
  /\ locks[repo_id] = l
  /\ \A w \in Workers : ~(Holds(w) /\ wk[w].id = repo_id /\ wk[w].lock = l)

\* Lock.acquire() returns only when no thread holds the lock object
LockFree(repo_id, l) ==
  \A w \in Workers : ~(Holds(w) /\ wk[w].id = repo_id /\ wk[w].lock = l)

(* ------------------------------- Init --------------------------------- *)
\* no warm_cache call has been made
NoWarm ==
  [state |-> "", todo |-> <<>>, cred |-> NoCred, warmed |-> 0, error |-> ""]

\* no helper has been called directly
NoCall ==
  [fn |-> "", url |-> <<>>, cred |-> NoCred, text |-> <<>>, result |-> <<>>,
   cause |-> <<>>]

\* client_id not in self.buckets
NoBucket == [tokens |-> -1, last_refill |-> -1]

\* history of a client's bucket: made at time at, and since then asked n
\* times for one token, all at time at.  NoSeen: the client has no bucket;
\* Stale: its bucket was asked at a later time or for another amount
NoSeen == [at |-> -1, n |-> 0]
Stale == [at |-> -1, n |-> -1]

\* a wait time in seconds is the fraction <<numerator, denominator>>
NoWait == <<0, 1>>

\* no call into auth.py yet
NoReply ==
  [op |-> "", client |-> <<>>, tokens |-> 0, allowed |-> FALSE,
   wait_time |-> NoWait, authorization |-> <<>>, check |-> FALSE,
   valid |-> FALSE, error |-> ""]

\* The clients of the rate limiter; client_id is a string, the sequence of
\* its characters.
Clients == {<<"a">>, <<"s">>}

\* TokenValidator.secret_key
secret_key == <<"s">>

\* RateLimiter(capacity, refill_rate) as http_server and the tests make it:
\* both positive
RefillRates == {1, 2}

\* CommitResult(success=False, commit_hash=None, commit_message=None,
\* files_changed=0, pushed=False, changelog_updated=False, message="",
\* error=None); commit_hash 0 is None, commit_message FALSE is None
NoResult ==
  [success |-> FALSE, commit_hash |-> 0, commit_message |-> FALSE,
   files_changed |-> 0, pushed |-> FALSE, changelog_updated |-> FALSE,
   message |-> "", error |-> ""]

\* no execute_git_commit_and_push call made yet. pc is the statement the
\* call is at, changes the total_files() of the change set (-1: none
\* got), did the steps that have acted on the repository, push how
\* push_to_remote ended ("none": not called)
NoFlow ==
  [pc |-> "idle", kind |-> "local", confirm_push |-> FALSE, changes |-> -1,
   did |-> {}, push |-> "none", result |-> NoResult]

InitFull(t, ttls, sizes, capacities, rates) ==
  /\ now = 0
  /\ cache_ttl_seconds \in ttls
  /\ max_cache_size \in sizes
  /\ cache = <<>>
  /\ locks = [i \in Ids |-> 0]
  /\ disk = [i \in Ids |-> NoDir]
  /\ ssh_command = ""
  /\ wk = [w \in Workers |-> IdleFrame]
  /\ out = NoOut
  /\ track = t
  /\ results = [w \in Workers |-> NoOut]
  /\ call = NoCall
  /\ warm = NoWarm
  /\ capacity \in capacities
  /\ refill_rate \in rates
  /\ buckets = [c \in Clients |-> NoBucket]
  /\ seen = [c \in Clients |-> NoSeen]
  /\ reply = NoReply
  /\ flow = NoFlow

\* the repository manager alone: the rate limiter is never called
InitWith(t, sizes) == InitFull(t, 1..MaxTTL, sizes, {1}, {1})

Init == InitWith(FALSE, 1..MaxCacheSize)

Tick ==
  /\ now < MaxTime
  /\ now' = now + 1
  /\ out' = NoOut
  /\ UNCHANGED <<conf, cache, locks, disk, ssh_command, wk, results>>

\* worker w goes on with frame f
Goes(w, f) ==
  /\ wk' = [wk EXCEPT ![w] = f]
  /\ out' = NoOut
  /\ UNCHANGED <<now, conf, results>>

\* worker w's call ends: it returns or raises, leaving every "with" block
Ends(w, o) ==
  /\ wk' = [wk EXCEPT ![w] = IdleFrame]
  /\ out' = o
  /\ results' = IF track THEN [results EXCEPT ![w] = o] ELSE results
  /\ UNCHANGED <<now, conf>>

(* ------------------------- _get_repo_lock ----------------------------- *)
\* (mutant) every call makes a new Lock and stores it in the table
_get_repo_lock_fresh(repo_id) == [locks EXCEPT ![repo_id] = NewLock(repo_id)]

\* under _lock_manager: create the table entry when absent, return it
_get_repo_lock(repo_id) ==
  IF locks[repo_id] = 0 THEN [locks EXCEPT ![repo_id] = NewLock(repo_id)] ELSE locks

(* --------------------- get_or_clone_repository ------------------------ *)
\* (mutant) the hit takes the per-repository lock before it returns
cache_hit_return_locked(w, f, i) ==
  /\ LockFree(f.id, _get_repo_lock(f.id)[f.id])
  /\ locks' = _get_repo_lock(f.id)
  /\ cache' = [cache EXCEPT ![i] = update_access(cache[i])]
  /\ Ends(w, [Outcome(w, f, "ok", cache[i].repo, TRUE)
                EXCEPT !.age = now - cache[i].last_accessed])

\* if cached_repo: return cached_repo -- the entry's handle is returned
\* before _get_repo_lock is called, so the lock table is left alone
cache_hit_return(w, f, i) ==
  /\ locks' = locks
  /\ cache' = [cache EXCEPT ![i] = update_access(cache[i])]
  /\ Ends(w, [Outcome(w, f, "ok", cache[i].repo, TRUE)
                EXCEPT !.age = now - cache[i].last_accessed])

\* credentials.validate(), which raises ValueError; then _get_from_cache and
\* the return on a hit.  Nothing shared is touched before the cache lookup.
GetStart(w, repo_url, c) ==
  /\ wk[w].pc = "idle"
  /\ LET repo_id == generate_repo_id(repo_url)
         i == CacheIdx(repo_id)
         f == [IdleFrame EXCEPT !.op = "get", !.url = repo_url, !.cred = c, !.id = repo_id]
     IN  /\ IF i = 0 THEN TRUE ELSE cache[i].access_count < MaxAccess
         /\ IF ~validate(c)
              THEN /\ UNCHANGED <<cache, locks>>
                   /\ Ends(w, Outcome(w, f, "ValueError", 0, FALSE))
            ELSE IF i = 0
              THEN /\ UNCHANGED <<cache, locks>>
                   /\ Goes(w, [f EXCEPT !.pc = "getlock"])
            ELSE IF is_expired(cache[i])
              THEN /\ cache' = CacheWithout({repo_id})
                   /\ locks' = locks
                   /\ Goes(w, [f EXCEPT !.pc = "getlock"])
            ELSE cache_hit_return(w, f, i)
  /\ UNCHANGED <<disk, ssh_command>>

\* lock = self._get_repo_lock(repo_id)
GetLock(w) ==
  /\ wk[w].pc = "getlock"
  /\ locks' = _get_repo_lock(wk[w].id)
  /\ Goes(w, [wk[w] EXCEPT !.pc = "acquire", !.lock = locks'[wk[w].id]])
  /\ UNCHANGED <<cache, disk, ssh_command>>

\* "with lock:" is entered, configure_ssh_key runs for SSH credentials, and
\* repo_path.exists() and (repo_path / ".git").exists() picks the branch
GetAcquire(w) ==
  /\ wk[w].pc = "acquire"
  /\ LockFree(wk[w].id, wk[w].lock)
  /\ LET c == wk[w].cred
         ssh == c.auth_type = "ssh" /\ c.ssh_key # ""
     IN  IF ssh /\ KeyFs(c.ssh_key) = "missing"
           THEN /\ Ends(w, Outcome(w, wk[w], "FileNotFoundError", 0, FALSE))
                /\ ssh_command' = ssh_command
         ELSE IF ssh /\ KeyFs(c.ssh_key) # "file"
           THEN /\ Ends(w, Outcome(w, wk[w], "ValueError", 0, FALSE))
                /\ ssh_command' = ssh_command
         ELSE /\ Goes(w, [wk[w] EXCEPT !.pc =
                   IF disk[wk[w].id].kind = "repo" THEN "open" ELSE "clone"])
              /\ ssh_command' = IF ssh THEN c.ssh_key ELSE ssh_command
  /\ UNCHANGED <<cache, locks, disk>>

\* (mutant) the open/pull error is raised instead of being recovered from
except_open_pull_raise(w, f, why) ==
  Ends(w, Outcome(w, [f EXCEPT !.failed = why], "GitCommandError", 0, FALSE))

\* (mutant) the handler of a failed clone never returns
except_clone_hang(w, f) == Goes(w, [f EXCEPT !.pc = "hang"])

\* (mutant) a failed clone is attempted again
except_clone_retry(w, f) == Goes(w, [f EXCEPT !.pc = "clone"])

\* except (InvalidGitRepositoryError, GitCommandError): the error is dropped
\* and the call goes on to remove the directory and clone again
except_open_pull(w, f, why) ==
  Goes(w, [f EXCEPT !.pc = "recover", !.failed = why, !.repo = 0])

\* except GitCommandError: a GitCommandError with a rewritten message is raised
except_clone(w, f) == Ends(w, Outcome(w, f, "GitCommandError", 0, FALSE))

\* (mutant) the remote URL of an existing clone is left as it is
set_url_skipped(f) == disk

\* if credentials and credentials.auth_type in ("https", "token"):
\*   if repo.remotes: repo.remotes[0].set_url(auth_url)
set_url(f) ==
  IF f.cred.auth_type \in {"https", "token"} /\ disk[f.id].remote # <<>>
    THEN [disk EXCEPT ![f.id].remote = _build_auth_url(f.url, f.cred)]
    ELSE disk

\* repo = Repo(repo_path), then remotes[0].set_url(auth_url) for https/token.
\* A directory that is gone raises NoSuchPathError, which no handler catches.
GetOpen(w, outs) ==
  /\ wk[w].pc = "open"
  /\ \E o \in outs :
       LET f == [wk[w] EXCEPT !.nopen = @ + 1]
           d == disk[f.id]
       IN  IF d.kind = "absent"
             THEN /\ Ends(w, Outcome(w, f, "NoSuchPathError", 0, FALSE))
                  /\ disk' = disk
           ELSE IF o = "fail"
             THEN /\ except_open_pull(w, f, "open")
                  /\ disk' = disk
           ELSE /\ Goes(w, [f EXCEPT !.pc = "pull", !.repo = NewHandle(f.id)])
                /\ disk' = set_url(f)
  /\ UNCHANGED <<cache, locks, ssh_command>>

\* origin.pull(); a GitCommandError goes to the recovery handler
GetPull(w, outs) ==
  /\ wk[w].pc = "pull"
  /\ \E o \in outs :
       LET f == [wk[w] EXCEPT !.npull = @ + 1]
       IN  IF o = "fail" \/ disk[f.id].kind = "absent"
             THEN except_open_pull(w, f, "pull")
             ELSE Goes(w, [f EXCEPT !.pc = "evict_expired"])
  /\ UNCHANGED <<cache, locks, disk, ssh_command>>

\* shutil.rmtree(repo_path, ignore_errors=True)
GetRecover(w, outs) ==
  /\ wk[w].pc = "recover"
  /\ \E o \in outs :
       disk' = IF o = "ok" THEN [disk EXCEPT ![wk[w].id] = NoDir] ELSE disk
  /\ Goes(w, [wk[w] EXCEPT !.pc = "clone", !.ndel = @ + 1])
  /\ UNCHANGED <<cache, locks, ssh_command>>

\* (mutant) the entry of the repository is dropped when its clone fails
GetCloneForget(w, outs) ==
  /\ wk[w].pc = "clone"
  /\ \E o \in outs :
       LET f == [wk[w] EXCEPT !.nclone = @ + 1]
       IN  IF o = "fail" \/ disk[f.id].kind # "absent"
             THEN /\ except_clone(w, f)
                  /\ disk' = disk
                  /\ cache' = <<>>
             ELSE /\ Goes(w, [f EXCEPT !.pc = "evict_expired", !.repo = NewHandle(f.id)])
                  /\ disk' = [disk EXCEPT ![f.id] =
                       [kind |-> "repo", remote |-> _build_auth_url(f.url, f.cred)]]
                  /\ cache' = cache
  /\ UNCHANGED <<locks, ssh_command>>

\* Repo.clone_from(auth_url, repo_path): git refuses a destination that
\* exists; a GitCommandError is re-raised by the outer handler
GetClone(w, outs) ==
  /\ wk[w].pc = "clone"
  /\ \E o \in outs :
       LET f == [wk[w] EXCEPT !.nclone = @ + 1]
       IN  IF o = "fail" \/ disk[f.id].kind # "absent"
             THEN /\ except_clone(w, f)
                  /\ disk' = disk
             ELSE /\ Goes(w, [f EXCEPT !.pc = "evict_expired", !.repo = NewHandle(f.id)])
                  /\ disk' = [disk EXCEPT ![f.id] =
                       [kind |-> "repo", remote |-> _build_auth_url(f.url, f.cred)]]
  /\ UNCHANGED <<cache, locks, ssh_command>>

\* _add_to_cache, first critical section: _evict_expired_cache_entries
GetEvictExpired(w) ==
  /\ wk[w].pc = "evict_expired"
  /\ cache' = CacheWithout(ExpiredIds)
  /\ Goes(w, [wk[w] EXCEPT !.pc = "evict_lru"])
  /\ UNCHANGED <<locks, disk, ssh_command>>

\* _add_to_cache, second critical section: _evict_lru_cache_entries
GetEvictLru(w) ==
  /\ wk[w].pc = "evict_lru"
  /\ cache' = CacheWithout(LruVictims)
  /\ Goes(w, [wk[w] EXCEPT !.pc = "insert"])
  /\ UNCHANGED <<locks, disk, ssh_command>>

\* _add_to_cache, third critical section: the insertion; then "return repo"
\* leaves the with block
GetInsert(w) ==
  /\ wk[w].pc = "insert"
  /\ cache' = CachePut(update_access(
       [repo |-> wk[w].repo, repo_id |-> wk[w].id, repo_url |-> wk[w].url,
        last_accessed |-> now, access_count |-> 0]))
  /\ Ends(w, Outcome(w, wk[w], "ok", wk[w].repo, FALSE))
  /\ UNCHANGED <<locks, disk, ssh_command>>

(* ------------------------- cleanup_workspace -------------------------- *)
\* lock = self._get_repo_lock(repo_id)
CwStart(w, repo_id) ==
  /\ wk[w].pc = "idle"
  /\ locks' = _get_repo_lock(repo_id)
  /\ Goes(w, [IdleFrame EXCEPT !.pc = "cw_acquire", !.op = "cw", !.id = repo_id,
                               !.lock = locks'[repo_id]])
  /\ UNCHANGED <<cache, disk, ssh_command>>

CwAcquire(w) ==
  /\ wk[w].pc = "cw_acquire"
  /\ LockFree(wk[w].id, wk[w].lock)
  /\ Goes(w, [wk[w] EXCEPT !.pc = "cw_rm"])
  /\ UNCHANGED <<cache, locks, disk, ssh_command>>

\* (mutant) the error is reported but the "with lock:" block is not left
except_os_error_holding(w) ==
  /\ wk' = [wk EXCEPT ![w].pc = "cw_cache"]
  /\ out' = Outcome(w, wk[w], "OSError", 0, FALSE)
  /\ UNCHANGED <<now, conf, results>>

\* except OSError as e: raise OSError(...) from e, which leaves "with lock:"
except_os_error(w) == Ends(w, Outcome(w, wk[w], "OSError", 0, FALSE))

\* (mutant) a failed deletion is swallowed and the call goes on
CwRmSwallow(w, outs) ==
  /\ wk[w].pc = "cw_rm"
  /\ \E o \in outs :
       /\ Goes(w, [wk[w] EXCEPT !.pc = "cw_cache",
                      !.ndel = IF disk[wk[w].id].kind # "absent" /\ o = "ok"
                                 THEN @ + 1 ELSE @])
       /\ disk' = IF o = "ok" THEN [disk EXCEPT ![wk[w].id] = NoDir] ELSE disk
  /\ UNCHANGED <<cache, locks, ssh_command>>

\* if repo_path.exists(): shutil.rmtree(repo_path), OSError re-raised
CwRm(w, outs) ==
  /\ wk[w].pc = "cw_rm"
  /\ \E o \in outs :
       IF disk[wk[w].id].kind = "absent"
         THEN /\ Goes(w, [wk[w] EXCEPT !.pc = "cw_cache"])
              /\ disk' = disk
       ELSE IF o = "ok"
         THEN /\ Goes(w, [wk[w] EXCEPT !.pc = "cw_cache", !.ndel = @ + 1])
              /\ disk' = [disk EXCEPT ![wk[w].id] = NoDir]
       ELSE /\ except_os_error(w)
            /\ disk' = disk
  /\ UNCHANGED <<cache, locks, ssh_command>>

\* (mutant) the whole cache is dropped
CwCacheAll(w) ==
  /\ wk[w].pc = "cw_cache"
  /\ cache' = <<>>
  /\ Goes(w, [wk[w] EXCEPT !.pc = "cw_locks"])
  /\ UNCHANGED <<locks, disk, ssh_command>>

\* (mutant) the directory is deleted inside the cache's critical section
CwCacheRm(w) ==
  /\ wk[w].pc = "cw_cache"
  /\ cache' = CacheWithout({wk[w].id})
  /\ disk' = [disk EXCEPT ![wk[w].id] = NoDir]
  /\ Goes(w, [wk[w] EXCEPT !.pc = "cw_locks", !.ndel = @ + 1])
  /\ UNCHANGED <<locks, ssh_command>>

\* with self._cache_lock: if repo_id in self._cache: del self._cache[repo_id]
CwCache(w) ==
  /\ wk[w].pc = "cw_cache"
  /\ cache' = CacheWithout({wk[w].id})
  /\ Goes(w, [wk[w] EXCEPT !.pc = "cw_locks"])
  /\ UNCHANGED <<locks, disk, ssh_command>>

\* del self._locks[repo_id] under _lock_manager, then the with block is left
CwLocks(w) ==
  /\ wk[w].pc = "cw_locks"
  /\ locks' = [locks EXCEPT ![wk[w].id] = 0]
  /\ Ends(w, Outcome(w, wk[w], "ok", 0, FALSE))
  /\ UNCHANGED <<cache, disk, ssh_command>>

(* ---------------------- cleanup_all_workspaces ------------------------ *)
\* the frame turns to the next item of the directory listing, or to clear_cache
CaNext(f, items) ==
  IF items = {} THEN {[f EXCEPT !.pc = "ca_clear", !.id = <<>>, !.todo = {}]}
  ELSE {[f EXCEPT !.pc = "ca_rm", !.id = i, !.todo = items \ {i}] : i \in items}

\* self.workspace_dir.iterdir()
CaStart(w) ==
  /\ wk[w].pc = "idle"
  /\ \E f \in CaNext([IdleFrame EXCEPT !.op = "ca"],
                     {i \in Ids : disk[i].kind # "absent"}) :
       Goes(w, f)
  /\ UNCHANGED <<cache, locks, disk, ssh_command>>

\* (mutant) the first deletion that fails ends the sweep with its OSError
CaRmAbort(w, outs) ==
  /\ wk[w].pc = "ca_rm"
  /\ \E o \in outs :
       IF disk[wk[w].id].kind # "absent" /\ o = "ok"
         THEN /\ disk' = [disk EXCEPT ![wk[w].id] = NoDir]
              /\ \E f \in CaNext([wk[w] EXCEPT !.cnt = @ + 1], wk[w].todo) :
                   Goes(w, f)
         ELSE /\ disk' = disk
              /\ Ends(w, Outcome(w, wk[w], "OSError", 0, FALSE))
  /\ UNCHANGED <<cache, locks, ssh_command>>

\* if item.is_dir(): shutil.rmtree(item); count += 1; OSError is swallowed
CaRm(w, outs) ==
  /\ wk[w].pc = "ca_rm"
  /\ \E o \in outs :
       LET gone == disk[wk[w].id].kind = "absent"
           done == ~gone /\ o = "ok"
       IN  /\ disk' = IF done THEN [disk EXCEPT ![wk[w].id] = NoDir] ELSE disk
           /\ \E f \in CaNext([wk[w] EXCEPT !.cnt = IF done THEN @ + 1 ELSE @],
                              wk[w].todo) :
                Goes(w, f)
  /\ UNCHANGED <<cache, locks, ssh_command>>

\* self.clear_cache()
CaClear(w) ==
  /\ wk[w].pc = "ca_clear"
  /\ cache' = <<>>
  /\ Goes(w, [wk[w] EXCEPT !.pc = "ca_locks"])
  /\ UNCHANGED <<locks, disk, ssh_command>>

\* self._locks.clear(); return count
CaLocks(w) ==
  /\ wk[w].pc = "ca_locks"
  /\ locks' = [i \in Ids |-> 0]
  /\ Ends(w, Outcome(w, wk[w], "ok", 0, FALSE))
  /\ UNCHANGED <<cache, disk, ssh_command>>

(* ----------------------------- warm_cache ----------------------------- *)
\* a step of the warm_cache loop itself: only its locals and the result it
\* picked up change
WarmGoes(w, wm) ==
  /\ warm' = wm
  /\ results' = [results EXCEPT ![w] = NoOut]
  /\ out' = NoOut
  /\ UNCHANGED <<now, cache_ttl_seconds, max_cache_size, track, call, cache,
                 locks, disk, ssh_command, wk, limiter, flow>>

\* warmed = 0; for repo_url in repo_urls:
WarmStart(w, repo_urls, c) ==
  /\ warm.state # "loop" /\ wk[w].pc = "idle"
  /\ WarmGoes(w, [NoWarm EXCEPT !.state = "loop", !.todo = repo_urls, !.cred = c])

\* self.get_or_clone_repository(repo_url, credentials) for the next URL
WarmGet(w) ==
  /\ warm.state = "loop" /\ warm.todo # <<>> /\ results[w].res = ""
  /\ GetStart(w, Head(warm.todo), warm.cred)

\* warmed += 1 after a call that returned; except (GitCommandError,
\* ValueError): continue; any other exception leaves warm_cache
WarmCollect(w) ==
  /\ warm.state = "loop" /\ wk[w].pc = "idle" /\ results[w].res # ""
  /\ WarmGoes(w,
       IF results[w].res = "ok"
         THEN [warm EXCEPT !.todo = Tail(@), !.warmed = @ + 1]
       ELSE IF results[w].res \in {"GitCommandError", "ValueError"}
         THEN [warm EXCEPT !.todo = Tail(@)]
       ELSE [warm EXCEPT !.state = "raised", !.error = results[w].res])

\* return warmed
WarmReturn(w) ==
  /\ warm.state = "loop" /\ warm.todo = <<>> /\ wk[w].pc = "idle"
  /\ WarmGoes(w, [warm EXCEPT !.state = "returned"])

(* ------------------------------ guards -------------------------------- *)
\* the steps that run inside "with self._cache_lock:", by where they start;
\* the lookup of get_or_clone_repository, get_cache_stats and clear_cache
\* start from "idle"
CacheLockPCs == {"evict_expired", "evict_lru", "insert", "cw_cache", "ca_clear"}
CacheLockOps == {"get", "stats", "clear"}

\* the steps that run inside "with self._lock_manager:"; the _get_repo_lock
\* of cleanup_workspace starts from "idle"
LockManagerPCs == {"getlock", "cw_locks", "ca_locks"}
LockManagerOps == {"cw"}

\* the steps that call git or the file system
DiskPCs == {"open", "pull", "recover", "clone", "cw_rm", "ca_rm"}

(* ---------------------------- cache helpers --------------------------- *)
\* (mutant) the number of entries instead of the sum of their counters
total_access_count_size(c) == Len(c)

\* sum(cached.access_count for cached in self._cache.values())
RECURSIVE total_access_count(_)
total_access_count(c) ==
  IF c = <<>> THEN 0 ELSE Head(c).access_count + total_access_count(Tail(c))

\* get_cache_stats(): size and total_access_count of the snapshot
GetCacheStats(w) ==
  /\ wk[w].pc = "idle"
  /\ Ends(w, Outcome(w, [IdleFrame EXCEPT !.op = "stats", !.cnt = Len(cache)],
                     "ok", total_access_count(cache), FALSE))
  /\ UNCHANGED <<cache, locks, disk, ssh_command>>

\* clear_cache(): count = len(self._cache); self._cache.clear(); return count
ClearCache(w) ==
  /\ wk[w].pc = "idle"
  /\ cache' = <<>>
  /\ Ends(w, Outcome(w, [IdleFrame EXCEPT !.op = "clear", !.cnt = Len(cache)],
                     "ok", 0, FALSE))
  /\ UNCHANGED <<locks, disk, ssh_command>>

(* -------------------------- configure_ssh_key ------------------------- *)
\* (mutant) GIT_SSH_COMMAND is set before the key path is looked at
configure_ssh_key_eager(k) ==
  [res |-> IF KeyFs(k) = "missing" THEN "FileNotFoundError"
           ELSE IF KeyFs(k) # "file" THEN "ValueError" ELSE "ok",
   env |-> k]

\* what the call raises or returns, and the GIT_SSH_COMMAND it leaves
configure_ssh_key(k) ==
  IF KeyFs(k) = "missing"
    THEN [res |-> "FileNotFoundError", env |-> ssh_command]
  ELSE IF KeyFs(k) # "file"
    THEN [res |-> "ValueError", env |-> ssh_command]
  ELSE [res |-> "ok", env |-> k]

\* a direct call of configure_ssh_key(ssh_key_path)
ConfigureSshKey(w, k) ==
  /\ wk[w].pc = "idle"
  /\ ssh_command' = configure_ssh_key(k).env
  /\ Ends(w, Outcome(w, [IdleFrame EXCEPT !.op = "ssh", !.cred = SshCred(k)],
                     configure_ssh_key(k).res, 0, FALSE))
  /\ UNCHANGED <<cache, locks, disk>>

(* ------------------------ helpers called directly -------------------- *)
\* all sequences over S of at most n elements
SeqsUpTo(S, n) == UNION {[1..k -> S] : k \in 0..n}

UrlPieces == {"https://", "http://", "git@", "host/a.git"}
TextPieces ==
  {"fatal: ", "Authentication failed", "AUTHENTICATION FAILED",
   "authentication failed", "Could not resolve host", "could not resolve host"}
FieldValues == {"", "x"}

\* every GitCredentials value over the field values, and credentials=None
AllCreds ==
  {NoCred} \cup
  [auth_type : {"ssh", "https", "token"}, username : FieldValues,
   password : FieldValues, ssh_key : FieldValues, token : FieldValues]

\* one direct call per behaviour: it touches nothing but its own result
Helper(c) ==
  /\ call = NoCall
  /\ call' = c
  /\ UNCHANGED <<now, cache_ttl_seconds, max_cache_size, track, warm, cache,
                 locks, disk, ssh_command, wk, out, results, limiter, flow>>

\* self._build_auth_url(repo_url, credentials)
BuildAuthUrl ==
  \E u \in SeqsUpTo(UrlPieces, MaxUrlLen), c \in AllCreds :
    Helper([NoCall EXCEPT !.fn = "_build_auth_url", !.url = u, !.cred = c,
                          !.result = _build_auth_url(u, c)])

\* credentials.validate()
Validate ==
  \E c \in AllCreds \ {NoCred} :
    Helper([NoCall EXCEPT !.fn = "validate", !.cred = c,
              !.result = IF validate(c) THEN <<"None">> ELSE <<"ValueError">>])

\* the "except GitCommandError as e" handler of get_or_clone_repository,
\* entered with an error whose stderr is the text t
CloneError ==
  \E u \in AllUrls, t \in SeqsUpTo(TextPieces, MaxTextLen) :
    Helper([NoCall EXCEPT !.fn = "except_clone", !.url = u, !.text = t,
              !.result = clone_error_stderr(u, t), !.cause = t])

(* ------------------------------ auth.py ------------------------------- *)
Min(a, b) == IF a < b THEN a ELSE b

\* (mutant) the refill is not capped at the capacity
_refill_uncapped(b) ==
  [tokens |-> b.tokens + (now - b.last_refill) * refill_rate,
   last_refill |-> now]

\* RateLimitBucket._refill, for time.time() = now
_refill(b) ==
  [tokens |-> Min(capacity, b.tokens + (now - b.last_refill) * refill_rate),
   last_refill |-> now]

\* (mutant) the tokens are checked but not taken
consume_free(b, tokens) ==
  [ok |-> _refill(b).tokens >= tokens, bucket |-> _refill(b)]

\* RateLimitBucket.consume: whether it returned True, and the bucket after
consume(b, tokens) ==
  LET r == _refill(b) IN
  IF r.tokens >= tokens
    THEN [ok |-> TRUE, bucket |-> [r EXCEPT !.tokens = @ - tokens]]
    ELSE [ok |-> FALSE, bucket |-> r]

\* RateLimitBucket.get_wait_time (its own _refill changes nothing: the clock
\* reading is that of the consume just before)
get_wait_time(b, tokens) ==
  LET r == _refill(b) IN
  IF r.tokens >= tokens THEN NoWait ELSE <<tokens - r.tokens, refill_rate>>

\* the bucket check_rate_limit works on: the client's, or a new full one
bucket_of(client_id) ==
  IF buckets[client_id] = NoBucket
    THEN [tokens |-> capacity, last_refill |-> now]
    ELSE buckets[client_id]

\* (mutant) one bucket for everybody
check_rate_limit_shared(client_id, tokens) ==
  LET c == consume(bucket_of(client_id), tokens) IN
  [allowed |-> c.ok,
   wait_time |-> IF c.ok THEN NoWait ELSE get_wait_time(c.bucket, tokens),
   buckets |-> [k \in Clients |-> c.bucket]]

\* RateLimiter.check_rate_limit, one critical section of self.lock: what it
\* returns and the buckets it leaves
check_rate_limit(client_id, tokens) ==
  LET c == consume(bucket_of(client_id), tokens) IN
  [allowed |-> c.ok,
   wait_time |-> IF c.ok THEN NoWait ELSE get_wait_time(c.bucket, tokens),
   buckets |-> [buckets EXCEPT ![client_id] = c.bucket]]

\* history: one more request of tokens asked of client_id's bucket
Asked(client_id, tokens) ==
  [seen EXCEPT ![client_id] =
     IF tokens # 1 THEN Stale
     ELSE IF buckets[client_id] = NoBucket THEN [at |-> now, n |-> 1]
     ELSE IF @.at # now THEN Stale
     ELSE [@ EXCEPT !.n = Min(@ + 1, MaxCapacity + 2)]]

\* a call into auth.py: only the limiter's buckets change
LimiterGoes(b, s, r) ==
  /\ buckets' = b
  /\ seen' = s
  /\ reply' = r
  /\ out' = NoOut
  /\ UNCHANGED <<now, cache_ttl_seconds, max_cache_size, track, call, warm,
                 capacity, refill_rate, cache, locks, disk, ssh_command, wk,
                 results, flow>>

\* rate_limiter.check_rate_limit(client_id, tokens)
CheckRateLimit(client_id, tokens) ==
  LET r == check_rate_limit(client_id, tokens) IN
  LimiterGoes(r.buckets, Asked(client_id, tokens),
              [NoReply EXCEPT !.op = "check_rate_limit", !.client = client_id,
                 !.tokens = tokens, !.allowed = r.allowed,
                 !.wait_time = r.wait_time])

\* rate_limiter.reset_client(client_id)
ResetClient(client_id) ==
  LimiterGoes([buckets EXCEPT ![client_id] = NoBucket],
              [seen EXCEPT ![client_id] = NoSeen],
              [NoReply EXCEPT !.op = "reset_client", !.client = client_id])

\* RateLimitBucket(capacity, tokens, refill_rate) made directly, as the
\* tests do, with 0 <= tokens <= capacity; last_refill is time.time()
NewBucket(client_id, tokens) ==
  /\ buckets[client_id] = NoBucket
  /\ LimiterGoes([buckets EXCEPT ![client_id] =
                    [tokens |-> tokens, last_refill |-> now]],
                 seen,
                 [NoReply EXCEPT !.op = "RateLimitBucket", !.client = client_id,
                    !.tokens = tokens])

\* bucket.consume(tokens) on a client's bucket
Consume(client_id, tokens) ==
  /\ buckets[client_id] # NoBucket
  /\ LET c == consume(buckets[client_id], tokens) IN
     LimiterGoes([buckets EXCEPT ![client_id] = c.bucket], seen,
                 [NoReply EXCEPT !.op = "consume", !.client = client_id,
                    !.tokens = tokens, !.allowed = c.ok])

\* bucket._refill()
Refill(client_id) ==
  /\ buckets[client_id] # NoBucket
  /\ LimiterGoes([buckets EXCEPT ![client_id] = _refill(@)], seen,
                 [NoReply EXCEPT !.op = "_refill", !.client = client_id])

\* bucket.get_wait_time(tokens), which refills before it computes
GetWaitTime(client_id, tokens) ==
  /\ buckets[client_id] # NoBucket
  /\ LimiterGoes([buckets EXCEPT ![client_id] = _refill(@)], seen,
                 [NoReply EXCEPT !.op = "get_wait_time", !.client = client_id,
                    !.tokens = tokens,
                    !.wait_time = get_wait_time(buckets[client_id], tokens)])

\* str.strip() on a sequence of characters
RECURSIVE lstrip(_)
lstrip(s) == IF s # <<>> /\ Head(s) = " " THEN lstrip(Tail(s)) ELSE s

RECURSIVE rstrip(_)
rstrip(s) ==
  IF s # <<>> /\ s[Len(s)] = " " THEN rstrip(SubSeq(s, 1, Len(s) - 1)) ELSE s

strip(s) == rstrip(lstrip(s))

\* s[:n]
Take(s, n) == SubSeq(s, 1, Min(Len(s), n))

\* TokenValidator.validate_token(token, use_jwt=False)
validate_token(token) == token = secret_key

\* verify_token returning before the rate limiter
Unlimited(valid, error) ==
  [valid |-> valid, error |-> error, client |-> <<>>, buckets |-> buckets]

\* verify_token past its checks of the header: what the rate limiter says
Limited(client_id) ==
  LET r == check_rate_limit(client_id, 1) IN
  [valid |-> r.allowed,
   error |-> IF r.allowed THEN "" ELSE "Rate limit exceeded",
   client |-> client_id, buckets |-> r.buckets]

\* (mutant) the rate limit is checked before the token is validated
verify_token_eager(authorization, check) ==
  IF authorization = <<>>
    THEN Unlimited(FALSE, "Missing Authorization header")
  ELSE IF Head(authorization) # "Bearer "
    THEN Unlimited(FALSE, "Invalid Authorization header format")
  ELSE LET token == strip(Tail(authorization)) IN
    IF token = <<>>
      THEN Unlimited(FALSE, "Empty token")
    ELSE IF check /\ ~Limited(Take(token, 32)).valid
      THEN Limited(Take(token, 32))
    ELSE IF ~validate_token(token)
      THEN [Unlimited(FALSE, "Invalid bearer token") EXCEPT
              !.buckets = IF check THEN Limited(Take(token, 32)).buckets ELSE @]
    ELSE IF check THEN Limited(Take(token, 32)) ELSE Unlimited(TRUE, "")

\* verify_token(authorization, validator, use_jwt=False, check_rate_limit):
\* token is authorization.replace("Bearer ", "", 1).strip(), client the
\* client_id = token[:32] handed to the rate limiter (<<>>: it was not
\* called)
verify_token(authorization, check) ==
  IF authorization = <<>>
    THEN Unlimited(FALSE, "Missing Authorization header")
  ELSE IF Head(authorization) # "Bearer "
    THEN Unlimited(FALSE, "Invalid Authorization header format")
  ELSE LET token == strip(Tail(authorization)) IN
    IF token = <<>>
      THEN Unlimited(FALSE, "Empty token")
    ELSE IF ~validate_token(token)
      THEN Unlimited(FALSE, "Invalid bearer token")
    ELSE IF check THEN Limited(Take(token, 32)) ELSE Unlimited(TRUE, "")

\* Authorization headers: none, another scheme, the scheme in lower case, no
\* token, blanks for a token, an unknown token, the secret, the secret
\* between blanks
AuthHeaders ==
  {<<>>, <<"Basic ", "s">>, <<"bearer ", "s">>, <<"Bearer ">>,
   <<"Bearer ", " ">>, <<"Bearer ", "a">>, <<"Bearer ", "s">>,
   <<"Bearer ", " ", "s", " ">>}

\* verify_token(authorization, validator, check_rate_limit=check)
VerifyToken(authorization, check) ==
  LET r == verify_token(authorization, check) IN
  LimiterGoes(r.buckets,
              IF r.client = <<>> THEN seen ELSE Asked(r.client, 1),
              [NoReply EXCEPT !.op = "verify_token", !.client = r.client,
                 !.authorization = authorization, !.check = check,
                 !.valid = r.valid, !.error = r.error])

(* --------------------- execute_git_commit_and_push -------------------- *)
\* a step of the call: only its locals and its result change
FlowGoes(f) ==
  /\ flow' = f
  /\ out' = NoOut
  /\ UNCHANGED <<now, cache_ttl_seconds, max_cache_size, track, call, warm,
                 limiter, cache, locks, disk, ssh_command, wk, results>>

\* result.error = ...; result.message = result.error; return result.__dict__
Fails(f, error) ==
  [f EXCEPT !.pc = "done", !.result.error = error, !.result.message = error]

\* the handlers around the whole body, for an exception of class e that no
\* handler of a step caught
except_outer(f, e) ==
  Fails(f, CASE e = "GitCommandError" -> "Git operation failed"
             [] e = "InvalidGitRepositoryError" -> "Invalid Git repository"
             [] e = "ValueError" -> "Configuration error"
             [] OTHER -> "Unexpected error")

\* the call starts: the result's defaults, the kind of repository_path
\* ("local", "http" for http:// and https://, "ssh" for git@ and ssh://) and
\* the SSH-only check of config.force_ssh_only
ExecuteGitCommitAndPush(kind, confirm_push, force_ssh_only) ==
  /\ flow.pc \in {"idle", "done"}
  /\ LET f == [NoFlow EXCEPT !.pc = "access", !.kind = kind,
                              !.confirm_push = confirm_push] IN
     FlowGoes(IF kind = "http" /\ force_ssh_only
                THEN Fails(f, "Remote repository must use SSH (git@ or ssh://).")
                ELSE f)

\* the repository is got: get_or_clone_repository for a URL,
\* get_local_repository for a path that exists ("missing": it does not)
AccessRepository(outs) ==
  /\ flow.pc = "access"
  /\ \E o \in outs :
       /\ o = "missing" => flow.kind = "local"
       /\ FlowGoes(CASE o = "ok" -> [flow EXCEPT !.pc = "track"]
                     [] o = "missing" ->
                          Fails(flow, "Repository path does not exist")
                     [] o = "InvalidGitRepositoryError" ->
                          Fails(flow, "Not a git repository")
                     [] o = "GitCommandError" ->
                          Fails(flow, "Failed to access repository")
                     [] o = "FileNotFoundError" -> Fails(flow, "str(e)")
                     [] OTHER -> except_outer(flow, o))

\* (mutant) an empty change set is committed like any other
TrackChangesOn(outs) ==
  /\ flow.pc = "track"
  /\ \E o \in outs, n \in 0..MaxFiles :
       FlowGoes(CASE o = "ok" ->
                       [flow EXCEPT !.pc = "message", !.changes = n,
                                    !.result.files_changed = n]
                  [] o = "GitCommandError" ->
                       Fails(flow, "Failed to track changes")
                  [] OTHER -> except_outer(flow, o))

\* Step 1: change_tracker.get_changes(repo) finds n changed files; with
\* none the call returns at once
TrackChanges(outs) ==
  /\ flow.pc = "track"
  /\ \E o \in outs, n \in 0..MaxFiles :
       FlowGoes(CASE o = "ok" /\ n = 0 ->
                       [flow EXCEPT !.pc = "done", !.changes = 0,
                                    !.result.success = TRUE,
                                    !.result.message = "No changes to commit",
                                    !.result.files_changed = 0]
                  [] o = "ok" /\ n > 0 ->
                       [flow EXCEPT !.pc = "message", !.changes = n,
                                    !.result.files_changed = n]
                  [] o = "GitCommandError" ->
                       Fails(flow, "Failed to track changes")
                  [] OTHER -> except_outer(flow, o))

\* Step 2: the commit message, by the AI client or the heuristic generator
GenerateMessage(outs) ==
  /\ flow.pc = "message"
  /\ \E o \in outs :
       FlowGoes(IF o = "ok"
                  THEN [flow EXCEPT !.pc = "changelog",
                                    !.result.commit_message = TRUE]
                  ELSE Fails(flow, "Failed to generate commit message"))

\* Step 3: changelog_mgr.update_changelog with the placeholder hash; an
\* IOError is logged and the call goes on
UpdateChangelog(outs) ==
  /\ flow.pc = "changelog"
  /\ \E o \in outs :
       FlowGoes(CASE o = "ok" ->
                       [flow EXCEPT !.pc = "stage", !.did = @ \cup {"changelog"}]
                  [] o = "IOError" -> [flow EXCEPT !.pc = "stage"]
                  [] OTHER -> except_outer(flow, o))

\* Step 4: git_ops.stage_changes and the staging of the changelog file
StageChanges(outs) ==
  /\ flow.pc = "stage"
  /\ \E o \in outs :
       FlowGoes(CASE o = "ok" ->
                       [flow EXCEPT !.pc = "commit", !.did = @ \cup {"stage"}]
                  [] o \in {"GitCommandError", "InvalidGitRepositoryError"} ->
                       Fails(flow, "Failed to stage changes")
                  [] OTHER -> except_outer(flow, o))

\* Step 5: git_ops.create_commit; commit_hash becomes 1
CreateCommit(outs) ==
  /\ flow.pc = "commit"
  /\ \E o \in outs :
       FlowGoes(CASE o = "ok" ->
                       [flow EXCEPT !.pc = "amend", !.did = @ \cup {"commit"},
                                    !.result.commit_hash = 1,
                                    !.result.changelog_updated = TRUE]
                  [] o \in {"GitCommandError", "InvalidGitRepositoryError"} ->
                       Fails(flow, "Failed to create commit")
                  [] OTHER -> except_outer(flow, o))

\* Step 6: the changelog gets the real hash and the commit is amended
\* (result.commit_hash becomes the amended commit's, 2); an IOError or
\* GitCommandError is logged and the call goes on
AmendCommit(outs) ==
  /\ flow.pc = "amend"
  /\ \E o \in outs :
       FlowGoes(CASE o = "ok" ->
                       [flow EXCEPT !.pc = "push", !.did = @ \cup {"amend"},
                                    !.result.commit_hash = 2]
                  [] o \in {"IOError", "GitCommandError"} ->
                       [flow EXCEPT !.pc = "push"]
                  [] OTHER -> except_outer(flow, o))

\* result.success = True ... return result.__dict__ (the message is never
\* empty here)
Succeeds(f) == [f EXCEPT !.pc = "done", !.result.success = TRUE]

\* Step 7: git_ops.push_to_remote(repo) if confirm_push, ending as o
\* ("ValueError": no remote; "TypeError": get_current_branch on a detached
\* HEAD), then the changelog's push status, ending as o2; then the return
HandlePush(outs, outs2) ==
  /\ flow.pc = "push"
  /\ IF ~flow.confirm_push
       THEN FlowGoes(Succeeds([flow EXCEPT !.result.pushed = FALSE,
                 !.result.message = "Commit created successfully (not pushed)"]))
       ELSE \E o \in outs, o2 \in outs2 :
              LET f == [flow EXCEPT !.push = o, !.did = @ \cup {"push"}] IN
              FlowGoes(
                CASE o = "ok" ->
                       Succeeds([f EXCEPT !.result.pushed = TRUE,
                                   !.result.message = "Successfully pushed to",
                                   !.did = IF o2 = "ok" THEN @ \cup {"relabel"}
                                           ELSE @])
                  [] o = "ValueError" ->
                       Succeeds([f EXCEPT !.result.pushed = FALSE,
                         !.result.message =
                           "Commit created successfully but not pushed"])
                  [] o \in {"GitCommandError", "InvalidGitRepositoryError"} ->
                       Succeeds([f EXCEPT !.result.pushed = FALSE,
                         !.result.message =
                           "Commit created successfully but push failed"])
                  [] OTHER -> except_outer(f, o))

(* --------------------------- specifications --------------------------- *)
Both == {"ok", "fail"}

\* which primitives may fail: Repo(path), pull, rmtree, clone_from
AnyFault == [open |-> Both, pull |-> Both, rm |-> Both, clone |-> Both]

\* the steps of get_or_clone_repository calls for the given URLs and credentials
GetSteps(w, urls, creds, F) ==
  \/ \E u \in urls, c \in creds : GetStart(w, u, c)
  \/ GetLock(w) \/ GetAcquire(w)
  \/ GetOpen(w, F.open) \/ GetPull(w, F.pull) \/ GetRecover(w, F.rm) \/ GetClone(w, F.clone)
  \/ GetEvictExpired(w) \/ GetEvictLru(w) \/ GetInsert(w)

\* the steps of cleanup_workspace and cleanup_all_workspaces calls
CleanupSteps(w, urls, outs) ==
  \/ \E u \in urls : CwStart(w, generate_repo_id(u))
  \/ CwAcquire(w) \/ CwRm(w, outs) \/ CwCache(w) \/ CwLocks(w)
  \/ CaStart(w) \/ CaRm(w, outs) \/ CaClear(w) \/ CaLocks(w)

\* Parallel callers of one URL, get_or_clone_repository only, with room in
\* the cache for more than one entry.
NextSame ==
  \/ Tick
  \/ \E w \in Workers : GetSteps(w, {U1}, {NoCred}, AnyFault)

SpecSame == InitWith(FALSE, {MaxCacheSize + 1}) /\ [][NextSame]_vars

\* One caller that warms the cache, with lists of URLs and every kind of
\* failure of the calls it makes.
NextWarm ==
  \/ Tick
  \/ \E us \in {<<U1>>, <<U3, U1>>, <<U1, U3>>, <<U1, U1>>},
        c \in {NoCred, BadTokenCred, SshCred("key_file"), SshCred("key_dir"),
               SshCred("key_gone")} :
       WarmStart("w1", us, c)
  \/ WarmGet("w1") \/ WarmCollect("w1") \/ WarmReturn("w1")
  \/ GetLock("w1") \/ GetAcquire("w1")
  \/ GetOpen("w1", Both) \/ GetPull("w1", Both) \/ GetRecover("w1", Both)
  \/ GetClone("w1", Both)
  \/ GetEvictExpired("w1") \/ GetEvictLru("w1") \/ GetInsert("w1")

SpecWarm == InitWith(TRUE, {MaxCacheSize + 1}) /\ [][NextWarm]_vars

\* The rate limiter and verify_token, called one request after another
\* (check_rate_limit is one critical section of RateLimiter.lock).
NextAuth ==
  \/ Tick
  \/ \E c \in Clients, t \in {1, 2} : CheckRateLimit(c, t)
  \/ \E c \in Clients : ResetClient(c)
  \/ \E h \in AuthHeaders, f \in BOOLEAN : VerifyToken(h, f)

SpecAuth ==
  InitFull(FALSE, {1}, {1}, 1..MaxCapacity, RefillRates) /\ [][NextAuth]_vars

\* Buckets used directly: made with any token count up to the capacity,
\* then asked for 0 to MaxCapacity + 1 tokens as the clock goes on.
NextBucket ==
  \/ Tick
  \/ \E c \in Clients, k \in 0..MaxCapacity : k <= capacity /\ NewBucket(c, k)
  \/ \E c \in Clients, t \in 0..(MaxCapacity + 1) : Consume(c, t)
  \/ \E c \in Clients : Refill(c)
  \/ \E c \in Clients, t \in 0..(MaxCapacity + 1) : GetWaitTime(c, t)

SpecBucket ==
  InitFull(FALSE, {1}, {1}, 1..MaxCapacity, RefillRates) /\ [][NextBucket]_vars

\* The commit workflow on local paths and URLs, with every way its steps
\* are documented to fail.
NextFlow ==
  \/ \E k \in {"local", "http", "ssh"}, c \in BOOLEAN, s \in BOOLEAN :
       ExecuteGitCommitAndPush(k, c, s)
  \/ AccessRepository({"ok", "missing", "InvalidGitRepositoryError",
                       "GitCommandError", "FileNotFoundError", "ValueError"})
  \/ TrackChanges({"ok", "GitCommandError"})
  \/ GenerateMessage(Both)
  \/ UpdateChangelog({"ok", "IOError"})
  \/ StageChanges({"ok", "GitCommandError", "InvalidGitRepositoryError"})
  \/ CreateCommit({"ok", "GitCommandError", "InvalidGitRepositoryError"})
  \/ AmendCommit({"ok", "IOError", "GitCommandError"})
  \/ HandlePush({"ok", "ValueError", "GitCommandError",
                 "InvalidGitRepositoryError", "TypeError"}, {"ok", "IOError"})

SpecFlow == InitFull(FALSE, {1}, {1}, {1}, {1}) /\ [][NextFlow]_vars

\* One caller with every kind of credentials, on an HTTPS and an SSH URL.
NextCred ==
  \/ Tick
  \/ GetSteps("w1", {U1, U3},
              {NoCred, TokenCred, HttpsCred,
               SshCred("key_file"), SshCred("key_dir"), SshCred("key_gone")},
              AnyFault)
  \/ CleanupSteps("w1", {U1, U3}, Both)
  \/ \E k \in {"key_file", "key_file2", "key_dir", "key_gone"} :
       ConfigureSshKey("w1", k)

SpecCred == InitWith(FALSE, {MaxCacheSize + 1}) /\ [][NextCred]_vars

\* The pure helpers, each applied to every input within the bounds.
NextPure == BuildAuthUrl \/ Validate \/ CloneError

SpecPure == Init /\ [][NextPure]_vars

\* Parallel workers on one repository: every operation, every fault.
Next ==
  \/ Tick
  \/ \E w \in Workers :
       \/ GetSteps(w, {U1}, {NoCred, BadTokenCred}, AnyFault)
       \/ CleanupSteps(w, {U1}, Both)

Spec == Init /\ [][Next]_vars

\* Parallel get_or_clone_repository calls on two repositories.
NextTwo ==
  \/ Tick
  \/ \E w \in Workers : GetSteps(w, {U1, U2}, {NoCred}, AnyFault)

SpecTwo == Init /\ [][NextTwo]_vars

\* Parallel get_or_clone_repository calls on two repositories, with room in
\* the cache for both.
SpecPair == InitWith(FALSE, {MaxCacheSize + 1}) /\ [][NextTwo]_vars

\* "with lock:" of a call in progress is entered
Acquire(w) == GetAcquire(w) \/ CwAcquire(w)

\* the next statement of the call worker w is in, other than "with lock:",
\* whatever the primitives do
Proceed(w) ==
  \/ GetLock(w)
  \/ GetOpen(w, Both) \/ GetPull(w, Both) \/ GetRecover(w, Both) \/ GetClone(w, Both)
  \/ GetEvictExpired(w) \/ GetEvictLru(w) \/ GetInsert(w)
  \/ CwRm(w, Both) \/ CwCache(w) \/ CwLocks(w)
  \/ CaRm(w, Both) \/ CaClear(w) \/ CaLocks(w)

\* the next step of the call worker w is in
Continue(w) == Acquire(w) \/ Proceed(w)

\* Every operation of the manager, in parallel: worker w1 on two
\* repositories, worker w2 on one of them; the clock stands still.
NextMix ==
  \/ GetSteps("w1", {U1, U2}, {NoCred}, AnyFault)
  \/ CleanupSteps("w1", {U1, U2}, Both)
  \/ GetSteps("w2", {U1}, {NoCred}, AnyFault)
  \/ CleanupSteps("w2", {U1}, Both)
  \/ \E w \in Workers : GetCacheStats(w) \/ ClearCache(w)

SpecMix == InitFull(FALSE, {1}, 1..MaxCacheSize, {1}, {1}) /\ [][NextMix]_vars

\* Parallel workers on one repository, with SSH keys that are missing or
\* not files; the clock stands still.  Every primitive terminates (a call
\* in progress takes its next step) and lock acquisition is fair (a waiter
\* that can enter again and again does enter).
NextLive ==
  \E w \in Workers :
    \/ GetSteps(w, {U1}, {NoCred, SshCred("key_gone"), SshCred("key_dir")}, AnyFault)
    \/ CleanupSteps(w, {U1}, Both)

Fairness ==
  \A w \in Workers : WF_vars(Proceed(w)) /\ SF_vars(Acquire(w))

SpecLive ==
  InitFull(FALSE, {1}, 1..MaxCacheSize, {1}, {1}) /\ [][NextLive]_vars /\ Fairness

\* One caller, three repositories, a cache of MaxCacheSize + 1 entries.
NextSeq ==
  \/ Tick
  \/ GetSteps("w1", AllUrls, {NoCred}, AnyFault)
  \/ CleanupSteps("w1", AllUrls, Both)
  \/ GetCacheStats("w1") \/ ClearCache("w1")

SpecSeq == InitWith(FALSE, {MaxCacheSize + 1}) /\ [][NextSeq]_vars

\* Two callers, each calling get_or_clone_repository once for the same URL on
\* an empty workspace and keeping its result; clone_from and rmtree succeed.
NextRace ==
  \/ Tick
  \/ \E w \in Workers :
       \/ results[w].res = "" /\ wk[w].pc = "idle" /\ GetStart(w, U1, NoCred)
       \/ GetLock(w) \/ GetAcquire(w)
       \/ GetOpen(w, Both) \/ GetPull(w, Both) \/ GetRecover(w, {"ok"})
       \/ GetClone(w, {"ok"})
       \/ GetEvictExpired(w) \/ GetEvictLru(w) \/ GetInsert(w)

SpecRace == InitWith(TRUE, 1..MaxCacheSize) /\ [][NextRace]_vars

(* ------------------------------ claims -------------------------------- *)
\* worker w is executing a disk operation on the clone of repo_id: the open,
\* pull, recovery rmtree or clone of get_or_clone_repository, or the rmtree of
\* a cleanup on a directory that exists
InDiskOp(w, repo_id) ==
  /\ wk[w].id = repo_id
  /\ \/ wk[w].pc \in {"open", "pull", "recover", "clone"}
     \/ wk[w].pc \in {"cw_rm", "ca_rm"} /\ disk[repo_id].kind # "absent"

\* C1 (as claimed): for every identity, at most one worker at a time is
\* executing a disk operation (clone, open-and-pull, recovery delete, cleanup
\* delete) on that identity's clone.
C1_MutualExclusion ==
  \A i \in Ids : Cardinality({w \in Workers : InDiskOp(w, i)}) <= 1

\* C2 (as claimed): in every reachable state the cache holds at most
\* max_cache_size entries.
C2_CacheBound == Len(cache) <= max_cache_size



\* the get_or_clone_repository frames and outcomes
GetFrames == {wk[w] : w \in {v \in Workers : wk[v].op = "get"}}
               \cup (IF out.op = "get" THEN {out} ELSE {})

\* C7: a get_or_clone_repository call attempts at most one pull and at most
\* one clone; a failed open/pull is followed by exactly one recovery delete
\* and one clone attempt; after a clone attempt the call is either adding the
\* new clone to the cache or has ended, and a call that ended in
\* GitCommandError made exactly one clone attempt, its last step.
C7_AtMostOnePullOneClone ==
  /\ \A f \in GetFrames :
       /\ f.npull <= 1 /\ f.nclone <= 1 /\ f.nopen <= 1 /\ f.ndel <= 1
       /\ f.npull <= f.nopen
       /\ f.ndel = 1 => f.failed # ""
  /\ \A w \in Workers :
       wk[w].op = "get" =>
         /\ wk[w].nclone = 1 => wk[w].pc \in {"evict_expired", "evict_lru", "insert"}
         /\ wk[w].failed # "" =>
              \/ wk[w].pc = "recover" /\ wk[w].ndel = 0 /\ wk[w].nclone = 0
              \/ wk[w].pc = "clone" /\ wk[w].ndel = 1 /\ wk[w].nclone = 0
              \/ wk[w].ndel = 1 /\ wk[w].nclone = 1
  /\ out.op = "get" =>
       /\ out.failed # "" => out.ndel = 1 /\ out.nclone = 1
       /\ out.res = "GitCommandError" <=> (out.nclone = 1 /\ out.ret = 0 /\ ~out.hit)
       /\ out.res = "ok" /\ ~out.hit => out.ret # 0

\* C7 witness: a call whose pull failed, which deleted and re-cloned once, and
\* whose clone failure was raised.
C7_Witness ==
  /\ out.op = "get" /\ out.res = "GitCommandError" /\ out.failed = "pull"
  /\ out.npull = 1 /\ out.ndel = 1 /\ out.nclone = 1

\* the declared variant of c lacks a field it requires
LacksRequiredField(c) ==
  \/ c.auth_type = "ssh" /\ c.ssh_key = ""
  \/ c.auth_type = "https" /\ (c.username = "" \/ c.password = "")
  \/ c.auth_type = "token" /\ c.token = ""

\* worker w starts a get_or_clone_repository call in this step
StartsGet(w) ==
  /\ wk[w].pc = "idle"
  /\ \/ wk'[w].pc # "idle" /\ wk'[w].op = "get"
     \/ out'.w = w /\ out'.op = "get"

\* the credentials of the call w starts in this step
StartedCred(w) == IF out'.w = w THEN out'.cred ELSE wk'[w].cred

\* C8: a get_or_clone_repository call whose credentials lack a required field
\* raises ValueError in its first step, and that step changes neither the
\* lock table, nor the cache (entries and their access metadata), the
\* workspace on disk or the SSH configuration, and leaves the worker idle
\* holding no lock.
C8_InvalidCredentialsTouchNothing ==
  [][\A w \in Workers :
       StartsGet(w) /\ LacksRequiredField(StartedCred(w)) =>
         /\ out'.w = w /\ out'.res = "ValueError"
         /\ out'.nclone = 0 /\ out'.nopen = 0 /\ out'.npull = 0 /\ out'.ndel = 0
         /\ wk'[w] = IdleFrame
         /\ UNCHANGED <<cache, locks, disk, ssh_command>>]_vars

\* C8 witness: ValueError was just raised while a fresh cache entry for the
\* same URL exists.
C8_Witness ==
  /\ out.res = "ValueError" /\ out.op = "get" /\ LacksRequiredField(out.cred)
  /\ out.id \in CacheIds
  /\ now - cache[CacheIdx(out.id)].last_accessed <= cache_ttl_seconds


\* both callers of the race have their result, and both missed the cache
BothMissed == \A w \in Workers : results[w].res # "" /\ ~results[w].hit

RaceClones(ws) == Cardinality({w \in ws : results[w].nclone = 1})

\* C3 (as claimed): when both workers missed the cache, both return without
\* error, clone_from was invoked exactly once, and the other worker opened and
\* pulled the existing clone instead.
C3_CloneOnceAsClaimed ==
  BothMissed =>
    /\ \A w \in Workers : results[w].res = "ok" /\ results[w].nclone <= 1
    /\ RaceClones(Workers) = 1
    /\ \E w \in Workers :
         results[w].nclone = 0 /\ results[w].nopen = 1 /\ results[w].npull = 1

\* C3 (amended): the same, provided neither worker's open or pull failed.
C3_CloneOnce ==
  (BothMissed /\ \A w \in Workers : results[w].failed = "") =>
    /\ \A w \in Workers : results[w].res = "ok" /\ results[w].nclone <= 1
    /\ RaceClones(Workers) = 1
    /\ \E w \in Workers :
         results[w].nclone = 0 /\ results[w].nopen = 1 /\ results[w].npull = 1

\* C3 witness: both workers missed the cache and returned, no open or pull failed.
C3_Witness ==
  /\ BothMissed
  /\ \A w \in Workers : results[w].failed = "" /\ results[w].res = "ok"

\* worker w looks repo_id up in the cache in this step and is served from it
LookupHit(w, repo_id) ==
  wk[w].pc = "idle" /\ out'.w = w /\ out'.op = "get" /\ out'.hit /\ out'.id = repo_id

\* worker w looks repo_id up in the cache in this step and gets nothing
LookupMiss(w, repo_id) ==
  wk[w].pc = "idle" /\ wk'[w].pc = "getlock" /\ wk'[w].id = repo_id

\* C4 (as claimed): an entry inserted at t0 (and not accessed since) is
\* returned by a lookup at every time t < t0 + T; at every time t >= t0 + T
\* the lookup returns nothing and the entry is removed.
C4_TtlAsClaimed ==
  [][\A w \in Workers, i \in Ids :
       (LookupHit(w, i) \/ LookupMiss(w, i)) /\ i \in CacheIds
         /\ cache[CacheIdx(i)].access_count = 1 =>
       IF now < cache[CacheIdx(i)].last_accessed + cache_ttl_seconds
         THEN LookupHit(w, i) /\ out'.ret = cache[CacheIdx(i)].repo
         ELSE LookupMiss(w, i) /\ i \notin CacheIds']_vars

\* C4 (amended): an entry last accessed (inserted or hit) at t0 is returned
\* by a lookup at every time t <= t0 + T; at every time t > t0 + T the lookup
\* returns nothing and removes the entry.
C4_Ttl ==
  [][\A w \in Workers, i \in Ids :
       (LookupHit(w, i) \/ LookupMiss(w, i)) /\ i \in CacheIds =>
       IF now <= cache[CacheIdx(i)].last_accessed + cache_ttl_seconds
         THEN LookupHit(w, i) /\ out'.ret = cache[CacheIdx(i)].repo
         ELSE LookupMiss(w, i) /\ i \notin CacheIds']_vars

\* C4 witness: a lookup at exactly t0 + T has just returned the entry.
C4_Witness ==
  out.op = "get" /\ out.hit /\ out.res = "ok" /\ out.age = cache_ttl_seconds

\* C5: when a repository not in the cache is inserted into a full cache by a
\* sequential caller, the LRU step evicts exactly one entry, one whose
\* last-access time is the oldest, and keeps the others as they are; the
\* insertion then appends the new entry, so the cache again holds
\* max_cache_size entries, the new one among them.
C5_LruEviction ==
  [][/\ \A w \in Workers :
          wk[w].pc = "evict_lru" /\ wk'[w].pc = "insert"
            /\ Len(cache) = max_cache_size /\ wk[w].id \notin CacheIds =>
          \E v \in CacheIds :
            /\ cache' = CacheWithout({v})
            /\ Len(cache') = max_cache_size - 1
            /\ \A j \in 1..Len(cache) :
                 cache[CacheIdx(v)].last_accessed <= cache[j].last_accessed
     /\ \A w \in Workers :
          wk[w].pc = "insert" /\ out'.w = w =>
            /\ wk[w].id \notin CacheIds
            /\ Len(cache') = Len(cache) + 1 /\ Len(cache') <= max_cache_size
            /\ SubSeq(cache', 1, Len(cache)) = cache
            /\ cache'[Len(cache')].repo_id = wk[w].id
            /\ cache'[Len(cache')].last_accessed = now]_vars

\* C5 witness: the caller is about to insert a new repository after the LRU
\* step made room, and an entry that was hit after its insertion was kept.
C5_Witness ==
  /\ wk["w1"].pc = "insert" /\ wk["w1"].id \notin CacheIds
  /\ max_cache_size > 1 /\ Len(cache) = max_cache_size - 1
  /\ cache[1].access_count > 1


\* the call that ended in the last step was a get_or_clone_repository whose
\* open or pull of the existing directory raised a Git-level error
RecoveredCall == out.op = "get" /\ out.failed \in {"open", "pull"}

\* the call that ended in the last step returned a handle that is cached
\* under the call's repo_id
ReturnedCached ==
  /\ out.res = "ok" /\ out.ret # 0
  /\ out.id \in CacheIds /\ cache[CacheIdx(out.id)].repo = out.ret

\* C6 (as claimed): a call whose open or pull raised a Git-level error
\* deletes the directory, clones afresh, caches and returns the new clone's
\* handle and raises nothing.
C6_RecoveryAsClaimed ==
  RecoveredCall =>
    /\ out.ndel = 1 /\ out.nclone = 1
    /\ ReturnedCached

\* C6 (amended): a call whose open or pull raised a Git-level error never
\* raises that error: it attempts one deletion of the directory and one fresh
\* clone; when the clone succeeds the new handle is cached and returned,
\* otherwise the call raises the clone's GitCommandError.
C6_Recovery ==
  RecoveredCall =>
    /\ out.ndel = 1 /\ out.nclone = 1 /\ out.nopen = 1
    /\ out.res \in {"ok", "GitCommandError"}
    /\ out.res = "ok" => ReturnedCached

\* C6 witness: a pull failed, the directory was removed and cloned again and
\* the call returned the new handle.
C6_Witness ==
  /\ out.op = "get" /\ out.failed = "pull" /\ out.res = "ok"
  /\ out.ndel = 1 /\ out.nclone = 1 /\ ReturnedCached

\* worker w is idle while another worker holds the lock of repo_id
IdleBesideHolder(w, repo_id) ==
  /\ wk[w].pc = "idle"
  /\ \E v \in Workers \ {w} : Holds(v) /\ wk[v].id = repo_id

\* the cache holds an entry for repo_id that is not expired
FreshEntry(repo_id) ==
  /\ repo_id \in CacheIds
  /\ ~is_expired(cache[CacheIdx(repo_id)])
  /\ cache[CacheIdx(repo_id)].access_count < MaxAccess

\* C9: a call that finds a fresh cache entry returns that entry's handle and
\* leaves the lock table as it is (no lock created, none acquired); the call
\* is never blocked: it can return in one step whenever a fresh entry exists,
\* also while another worker holds that repository's lock.
C9_HitBypassesLock ==
  [][/\ \A w \in Workers, i \in Ids :
          LookupHit(w, i) =>
            /\ locks' = locks
            /\ out'.res = "ok" /\ out'.ret = cache[CacheIdx(i)].repo
            /\ wk'[w] = IdleFrame
     /\ \A w \in Workers :
          wk[w].pc = "idle" /\ FreshEntry(generate_repo_id(U1)) =>
            ENABLED GetStart(w, U1, NoCred)]_vars

\* C9 witness: a call was just served from the cache while another worker
\* holds the lock of the same repository.
C9_Witness ==
  /\ out.op = "get" /\ out.hit /\ out.res = "ok"
  /\ \E v \in Workers \ {out.w} : Holds(v) /\ wk[v].id = out.id

\* a first call for its URL ends in this step with the entry inserted
FirstCallReturns(w) == wk[w].pc = "insert" /\ out'.w = w

\* the second call: a hit on an entry that was inserted and not accessed since
SecondCallHits(w, repo_id) ==
  /\ LookupHit(w, repo_id)
  /\ cache[CacheIdx(repo_id)].access_count = 1

\* what the second of two sequential calls does: no clone, open or pull, the
\* cached handle returned, the access counter left at 2
SecondCallEffect(w, repo_id) ==
  /\ out'.nclone = 0 /\ out'.nopen = 0 /\ out'.npull = 0
  /\ out'.ret = cache[CacheIdx(repo_id)].repo
  /\ cache'[CacheIdx(repo_id)].repo = cache[CacheIdx(repo_id)].repo
  /\ cache'[CacheIdx(repo_id)].access_count = 2

\* what the first call leaves: the returned handle cached with counter 1
FirstCallEffect(w) ==
  /\ out'.ret = cache'[Len(cache')].repo
  /\ cache'[Len(cache')].repo_id = wk[w].id
  /\ cache'[Len(cache')].access_count = 1

\* C10 (as claimed): of two sequential calls for one URL within the TTL the
\* first clones or opens the repository exactly once and the second not at
\* all; the second returns the identical handle and leaves the counter at 2.
C10_OneCloneOrOpenAsClaimed ==
  [][/\ \A w \in Workers :
          FirstCallReturns(w) =>
            FirstCallEffect(w) /\ out'.nclone + out'.nopen = 1
     /\ \A w \in Workers, i \in Ids :
          SecondCallHits(w, i) => SecondCallEffect(w, i)]_vars

\* C10 (amended): the second call clones, opens and pulls nothing, returns
\* the identical handle and leaves the counter at 2; the first call clones
\* once, or opens once, or -- when the open or the pull failed -- opens once
\* and clones once.
C10_OneCloneOrOpen ==
  [][/\ \A w \in Workers :
          FirstCallReturns(w) =>
            /\ FirstCallEffect(w)
            /\ out'.nclone <= 1 /\ out'.nopen <= 1
            /\ IF out'.failed = "" THEN out'.nclone + out'.nopen = 1
                                   ELSE out'.nclone = 1 /\ out'.nopen = 1
     /\ \A w \in Workers, i \in Ids :
          SecondCallHits(w, i) => SecondCallEffect(w, i)]_vars

\* C10 witness: the second call has just returned the cached handle and the
\* entry's counter stands at 2.
C10_Witness ==
  /\ out.op = "get" /\ out.hit /\ out.res = "ok"
  /\ out.id \in CacheIds
  /\ cache[CacheIdx(out.id)].repo = out.ret
  /\ cache[CacheIdx(out.id)].access_count = 2


\* worker w has received a lock object from _get_repo_lock for repo_id
GotLock(w, repo_id) ==
  wk[w].op \in {"get", "cw"} /\ wk[w].id = repo_id /\ wk[w].lock # 0

\* C11: while no table entry is removed, all workers that called
\* _get_repo_lock for one identity hold the same lock object, and that
\* object is the identity's one entry of the lock table.
C11_SameLockObject ==
  \A i \in Ids : \A w, v \in Workers :
    GotLock(w, i) /\ GotLock(v, i) =>
      wk[w].lock = wk[v].lock /\ locks[i] = wk[w].lock

\* C11 witness: two workers have both called _get_repo_lock for one identity.
C11_Witness ==
  \E i \in Ids : \E w, v \in Workers :
    w # v /\ GotLock(w, i) /\ GotLock(v, i) /\ locks[i] = wk[w].lock

\* some worker holds the lock object that the table keeps for repo_id
EntryHeld(repo_id) ==
  \E w \in Workers :
    Holds(w) /\ wk[w].id = repo_id /\ wk[w].lock = locks[repo_id]

\* C12: no step removes the lock-table entry of an identity whose lock is
\* held by a worker at that moment.
C12_NoRemovalWhileHeld ==
  [][\A i \in Ids : locks[i] # 0 /\ locks'[i] = 0 => ~EntryHeld(i)]_vars

\* worker w waits to enter "with lock:" and nobody holds its repository's lock
WaitsUncontended(w) ==
  /\ wk[w].pc = "acquire"
  /\ \A v \in Workers \ {w} : Holds(v) => wk[v].id # wk[w].id

\* C13: a worker waiting for the lock of its own URL is never blocked by a
\* worker that holds the lock of a different URL: it can enter its
\* critical section at once.
C13_DistinctUrlsDoNotBlock ==
  \A w \in Workers : WaitsUncontended(w) => ENABLED GetAcquire(w)

\* C13 witness: both workers are inside their clone operations at the same
\* time, each for its own URL.
C13_Witness ==
  /\ wk["w1"].pc = "clone" /\ wk["w2"].pc = "clone"
  /\ wk["w1"].id # wk["w2"].id


\* this step belongs to a cleanup_workspace call of worker w for repo_id
CwStep(w, repo_id) ==
  /\ wk'[w] # wk[w]
  /\ \/ wk[w].op = "cw" /\ wk[w].id = repo_id
     \/ wk[w].pc = "idle" /\ wk'[w].op = "cw" /\ wk'[w].id = repo_id

\* C14: a cleanup_workspace(id) call that nothing runs beside changes
\* nothing that belongs to another identity (directory, cache entry,
\* lock-table entry); when it returns normally the directory of id is
\* absent and neither the cache nor the lock table has an entry for id; for
\* an identity without a directory it does not raise.
C14_CleanupWorkspaceFrame ==
  [][\A w \in Workers, i \in Ids :
       CwStep(w, i) =>
         /\ \A j \in Ids \ {i} : disk'[j] = disk[j] /\ locks'[j] = locks[j]
         /\ SelectSeq(cache', LAMBDA e : e.repo_id # i)
              = SelectSeq(cache, LAMBDA e : e.repo_id # i)
         /\ out'.w = w /\ out'.res = "ok" =>
              /\ disk'[i].kind = "absent"
              /\ i \notin CacheIds'
              /\ locks'[i] = 0
         /\ wk[w].pc = "cw_rm" /\ disk[i].kind = "absent" =>
              wk'[w].pc = "cw_cache"
         /\ out'.w = w => out'.res \in {"ok", "OSError"}]_vars

\* C14 witness: cleanup_workspace has just returned after deleting a
\* directory, and another identity still has its directory and cache entry.
C14_Witness ==
  /\ out.op = "cw" /\ out.res = "ok" /\ out.ndel = 1
  /\ \E j \in Ids \ {out.id} : disk[j].kind = "repo" /\ j \in CacheIds

\* worker v waits for the lock of repo_id, in either operation
WaitsFor(v, repo_id) ==
  wk[v].pc \in {"acquire", "cw_acquire"} /\ wk[v].id = repo_id

\* C15: when the deletion inside cleanup_workspace(id) fails, the call
\* raises OSError and no longer holds the lock of id: a worker waiting for
\* that lock in cleanup_workspace or get_or_clone_repository can enter.
C15_LockReleasedOnOSError ==
  out.op = "cw" /\ out.res # "ok" =>
    /\ out.res = "OSError"
    /\ ~Holds(out.w)
    /\ \A v \in Workers \ {out.w} :
         WaitsFor(v, out.id) => ENABLED (GetAcquire(v) \/ CwAcquire(v))

\* C15 witness: cleanup_workspace has just raised OSError while the other
\* worker waits for the same repository's lock.
C15_Witness ==
  /\ out.op = "cw" /\ out.res = "OSError"
  /\ \E v \in Workers \ {out.w} : WaitsFor(v, out.id)


\* the repository subdirectories of the workspace
Dirs == {i \in Ids : disk[i].kind # "absent"}

\* the directories a cleanup_all_workspaces frame has still to visit
Pending(f) == IF f.pc = "ca_rm" THEN f.todo \cup {f.id} ELSE {}

\* this step belongs to a cleanup_all_workspaces call of worker w
CaStep(w) ==
  /\ wk'[w] # wk[w]
  /\ wk[w].op = "ca" \/ (wk[w].pc = "idle" /\ wk'[w].op = "ca")

C16_PartialFailure ==
  /\ out.op = "ca" /\ out.res = "ok" /\ Dirs # {}
  /\ out.cnt >= 1


\* the URL is "https://" followed by a rest
IsHttps(u) == u # <<>> /\ Head(u) = "https://"

\* C17: _build_auth_url returns the URL unchanged when credentials are
\* absent or the URL does not start with "https://"; for a URL "https://" + r
\* it returns "https://" + token + "@" + r for token credentials and
\* "https://" + username + ":" + password + "@" + r for username/password
\* credentials, whatever the rest r is.
C17_BuildAuthUrl ==
  call.fn = "_build_auth_url" =>
    LET u == call.url
        c == call.cred
    IN  IF c = NoCred \/ ~IsHttps(u)
          THEN call.result = u
        ELSE IF c.auth_type = "token" /\ c.token # ""
          THEN call.result = <<"https://", c.token, "@">> \o Tail(u)
        ELSE IF c.auth_type = "https" /\ c.username # "" /\ c.password # ""
          THEN call.result =
                 <<"https://", c.username, ":", c.password, "@">> \o Tail(u)
        ELSE TRUE

\* C18: validate raises ValueError exactly when a field that the declared
\* variant requires is missing or empty, whatever the other fields hold, and
\* returns normally otherwise.
C18_ValidateExact ==
  call.fn = "validate" =>
    /\ call.result \in {<<"None">>, <<"ValueError">>}
    /\ call.result = <<"ValueError">> <=> LacksRequiredField(call.cred)

\* C18 witness: token credentials without a token are rejected although
\* every field of the other variants is filled in.
C18_Witness ==
  /\ call.fn = "validate" /\ call.result = <<"ValueError">>
  /\ call.cred.auth_type = "token" /\ call.cred.token = ""
  /\ call.cred.username # "" /\ call.cred.password # "" /\ call.cred.ssh_key # ""

\* the text holds the phrase in some spelling of upper and lower case
Mentions(t, spellings) == \E k \in 1..Len(t) : t[k] \in spellings

AuthSpellings ==
  {"Authentication failed", "AUTHENTICATION FAILED", "authentication failed"}
HostSpellings ==
  {"Could not resolve host", "COULD NOT RESOLVE HOST", "could not resolve host"}

\* message m begins with the phrase followed by the URL
BeginsWith(m, phrase, u) ==
  Len(m) >= 1 + Len(u) /\ SubSeq(m, 1, 1 + Len(u)) = <<phrase>> \o u

\* C20: the error raised for a clone failure keeps the original error as its
\* cause, and its message is "Authentication failed for <url>" when the
\* original text mentions "authentication failed" in any case, else
\* "Could not resolve host for <url>" when it mentions "could not resolve
\* host" in any case, else "Failed to clone repository <url>: <original text>".
C20_CloneErrorMessage ==
  call.fn = "except_clone" =>
    /\ call.cause = call.text
    /\ IF Mentions(call.text, AuthSpellings)
         THEN BeginsWith(call.result, "Authentication failed for ", call.url)
       ELSE IF Mentions(call.text, HostSpellings)
         THEN BeginsWith(call.result, "Could not resolve host for ", call.url)
       ELSE call.result =
              <<"Failed to clone repository ">> \o call.url \o <<": ">> \o call.text

\* C20 witness: the text mentions both phrases, the host phrase first and the
\* authentication phrase in upper case, and the authentication message wins.
C20_Witness ==
  /\ call.fn = "except_clone"
  /\ call.text = <<"Could not resolve host", "AUTHENTICATION FAILED">>
  /\ BeginsWith(call.result, "Authentication failed for ", call.url)


\* the URL that the caller passed for repo_id
UrlOf(repo_id) == CHOOSE u \in AllUrls : generate_repo_id(u) = repo_id

\* C19: in every reachable state each cache entry keeps the original URL and
\* each on-disk clone records the original URL as its remote, with no
\* username, password or token embedded.
C19_NoSecretStored ==
  /\ \A k \in 1..Len(cache) : cache[k].repo_url = UrlOf(cache[k].repo_id)
  /\ \A i \in Ids : disk[i].kind = "repo" => disk[i].remote = UrlOf(i)


\* a direct configure_ssh_key call of worker w for key k ends in this step
SshCallEnds(w, k) ==
  wk[w].pc = "idle" /\ out'.w = w /\ out'.op = "ssh" /\ out'.cred.ssh_key = k

\* C21: configure_ssh_key raises FileNotFoundError for a path that does not
\* exist and ValueError for one that is not a regular file, leaving
\* GIT_SSH_COMMAND as it was; on success GIT_SSH_COMMAND names the given key.
C21_ConfigureSshKey ==
  [][\A w \in Workers, k \in {"key_file", "key_file2", "key_dir", "key_gone"} :
       SshCallEnds(w, k) =>
         IF k = "key_gone"
           THEN out'.res = "FileNotFoundError" /\ ssh_command' = ssh_command
         ELSE IF k = "key_dir"
           THEN out'.res = "ValueError" /\ ssh_command' = ssh_command
         ELSE out'.res = "ok" /\ ssh_command' = k]_vars

\* C21 witness: a call for a missing key has just failed and the setting
\* still names the key of the last successful call.
C21_Witness ==
  /\ out.op = "ssh" /\ out.res = "FileNotFoundError"
  /\ ssh_command = "key_file2"


\* C22: for every identity, as long as the cache keeps an entry for it the
\* entry's access counter never decreases, whatever hits and insertions
\* concurrent get_or_clone_repository calls make.
C22_AccessCountMonotonic ==
  [][\A i \in Ids :
       i \in CacheIds /\ i \in CacheIds' =>
         cache'[CacheIdx(i)'].access_count >= cache[CacheIdx(i)].access_count]_vars

\* C23: under any interleaving, a lookup returns the entry exactly when it
\* is present and now - last_accessed <= cache_ttl_seconds, and then sets
\* last_accessed to now and adds 1 to the access counter; an older entry is
\* removed and nothing is returned; an absent entry returns nothing.
C23_LookupContract ==
  [][\A w \in Workers, i \in Ids :
       LookupHit(w, i) \/ LookupMiss(w, i) =>
         IF i \in CacheIds
              /\ now - cache[CacheIdx(i)].last_accessed <= cache_ttl_seconds
           THEN /\ LookupHit(w, i)
                /\ out'.ret = cache[CacheIdx(i)].repo
                /\ out'.age <= cache_ttl_seconds
                /\ i \in CacheIds'
                /\ cache'[CacheIdx(i)'].last_accessed = now
                /\ cache'[CacheIdx(i)'].access_count
                     = cache[CacheIdx(i)].access_count + 1
           ELSE /\ LookupMiss(w, i)
                /\ i \notin CacheIds']_vars

\* C23 witness: a lookup has just returned an entry that another hit had
\* refreshed, at a time later than its insertion plus the TTL would allow
\* without that refresh; the other worker is in the middle of a call.
C23_Witness ==
  /\ out.op = "get" /\ out.hit /\ out.res = "ok"
  /\ out.id \in CacheIds
  /\ cache[CacheIdx(out.id)].last_accessed = now
  /\ cache[CacheIdx(out.id)].access_count = 2
  /\ now > cache_ttl_seconds
  /\ \E v \in Workers \ {out.w} : wk[v].pc # "idle"


\* what worker w's call has done after this step: its frame, or its outcome
\* when the call ends in this step
After(w) == IF out'.w = w THEN out' ELSE wk'[w]

\* worker w takes a step inside a critical section of one of the two guards
UnderGuard(w) ==
  /\ wk'[w] # wk[w]
  /\ \/ wk[w].pc \in CacheLockPCs \cup LockManagerPCs
     \/ wk[w].pc = "idle" /\ After(w).op \in CacheLockOps \cup LockManagerOps

\* worker w's step performs no clone, open, pull or deletion
NoDiskOp(w) ==
  /\ disk' = disk
  /\ After(w).nclone = wk[w].nclone /\ After(w).nopen = wk[w].nopen
  /\ After(w).npull = wk[w].npull /\ After(w).ndel = wk[w].ndel

\* C24: no step taken inside a critical section of the cache guard or of
\* the lock-table guard clones, opens, pulls or deletes; and the steps that
\* do call git or the file system change neither the cache nor the lock
\* table, so no guard is held across them.
C24_NoDiskUnderGuards ==
  [][\A w \in Workers :
       /\ UnderGuard(w) => NoDiskOp(w)
       /\ wk'[w] # wk[w] /\ wk[w].pc \in DiskPCs =>
            cache' = cache /\ locks' = locks]_vars

\* C24 witness: one worker is about to delete a cache entry under the cache
\* guard while the other is inside a clone.
C24_Witness ==
  \E w, v \in Workers :
    wk[w].pc = "cw_cache" /\ wk[w].id \in CacheIds /\ wk[v].pc = "clone"

\* the authenticated form of URL u for credentials c
AuthUrlOf(u, c) ==
  IF ~IsHttps(u) THEN u
  ELSE IF c.auth_type = "token" THEN <<"https://", c.token, "@">> \o Tail(u)
  ELSE IF c.auth_type = "https"
    THEN <<"https://", c.username, ":", c.password, "@">> \o Tail(u)
  ELSE u

\* C25: on the existing-clone path the step that opens the clone sets its
\* remote URL to the authenticated URL when the credentials are https or
\* token, and leaves the disk unchanged otherwise; the pull comes in a later
\* step, with that remote URL already in place.
C25_SetUrlBeforePull ==
  [][\A w \in Workers :
       /\ wk[w].pc = "open" /\ wk'[w].pc = "pull" =>
            IF wk[w].cred.auth_type \in {"https", "token"}
              THEN /\ disk'[wk[w].id].remote = AuthUrlOf(wk[w].url, wk[w].cred)
                   /\ \A j \in Ids \ {wk[w].id} : disk'[j] = disk[j]
                   /\ wk'[w].npull = 0
              ELSE disk' = disk
       /\ wk[w].pc = "pull" /\ wk'[w] # wk[w] =>
            /\ disk' = disk /\ After(w).npull = 1
            /\ wk[w].cred.auth_type \in {"https", "token"} =>
                 disk[wk[w].id].remote = AuthUrlOf(wk[w].url, wk[w].cred)]_vars

\* C25 witness: a clone made without credentials is about to be pulled with
\* token credentials, and its remote URL already carries the token.
C25_Witness ==
  /\ wk["w1"].pc = "pull" /\ wk["w1"].cred = TokenCred
  /\ wk["w1"].url = U1
  /\ disk[wk["w1"].id].remote = <<"https://", "T", "@", "host/a.git">>

\* the sum of the access counters of the entries at the given positions
RECURSIVE CountSum(_)
CountSum(I) ==
  IF I = {} THEN 0
  ELSE LET k == CHOOSE x \in I : TRUE
       IN  cache[k].access_count + CountSum(I \ {k})

\* C26: get_cache_stats changes no state and reports the number of entries
\* and the sum of their access counters; clear_cache returns the number of
\* entries it removed, leaves the cache empty and changes neither the
\* workspace on disk nor the lock table.
C26_StatsAndClear ==
  [][\A w \in Workers :
       /\ out'.w = w /\ out'.op = "stats" =>
            /\ UNCHANGED <<cache, locks, disk, ssh_command, now>>
            /\ out'.cnt = Len(cache)
            /\ out'.ret = CountSum(1..Len(cache))
       /\ out'.w = w /\ out'.op = "clear" =>
            /\ out'.cnt = Len(cache)
            /\ cache' = <<>>
            /\ UNCHANGED <<locks, disk>>]_vars

\* C26 witness: get_cache_stats has just reported two entries with three
\* accesses in all.
C26_Witness ==
  /\ out.op = "stats" /\ out.cnt = 2 /\ out.ret = 3
  /\ Len(cache) = 2

\* C26 second witness state: clear_cache has just removed two entries while
\* their directories stay on disk.
C26_ClearWitness ==
  /\ out.op = "clear" /\ out.cnt = 2 /\ cache = <<>>
  /\ Cardinality({i \in Ids : disk[i].kind = "repo"}) >= 2


\* the warm_cache loop picks up the result of a call in this step
WarmPicksUp(w) ==
  warm.state = "loop" /\ results[w].res # "" /\ warm' # warm

\* C27: warm_cache goes through its whole list: whatever way a call fails
\* (clone error, invalid credentials, missing SSH key) the URL is skipped and
\* the loop goes on with the next one, counting exactly the calls that
\* returned; it returns that count when the list is used up.
C27_WarmCacheSkipsFailures ==
  [][\A w \in Workers :
       /\ WarmPicksUp(w) =>
            /\ warm'.state = "loop"
            /\ warm'.todo = Tail(warm.todo)
            /\ warm'.warmed = warm.warmed + IF results[w].res = "ok" THEN 1 ELSE 0
       /\ warm'.state = "returned" /\ warm.state = "loop" =>
            warm.todo = <<>> /\ warm'.warmed = warm.warmed]_vars

\* this step is the call check_rate_limit(c) for one token
Request(c) ==
  /\ now' = now
  /\ reply'.op = "check_rate_limit" /\ reply'.client = c /\ reply'.tokens = 1

\* a wait time of 0.0 / greater than 0
NoWaiting(x) == x[1] = 0
Waiting(x) == (x[1] > 0 /\ x[2] > 0) \/ (x[1] < 0 /\ x[2] < 0)

\* C28: a client's k-th one-token request since its bucket was made, with no
\* time elapsed since, is allowed with wait time 0 when k <= capacity and
\* rejected with a wait time greater than 0 when k > capacity (so exactly
\* the first N are allowed and the next is rejected); and the request that
\* follows reset_client for that client is allowed again.
C28_FirstNAllowed ==
  [][\A c \in Clients :
       Request(c) =>
         /\ (seen'[c].at = now /\ seen'[c].n >= 1) =>
              /\ reply'.allowed <=> seen'[c].n <= capacity
              /\ reply'.allowed => NoWaiting(reply'.wait_time)
              /\ ~reply'.allowed => Waiting(reply'.wait_time)
         /\ (reply.op = "reset_client" /\ reply.client = c) =>
              reply'.allowed /\ NoWaiting(reply'.wait_time)]_vars

\* C28 witness state: with the largest capacity N, request N + 1 made at the
\* time the bucket was made has just been rejected with a positive wait.
C28_Witness ==
  /\ capacity = MaxCapacity
  /\ reply.op = "check_rate_limit" /\ reply.tokens = 1 /\ ~reply.allowed
  /\ Waiting(reply.wait_time)
  /\ seen[reply.client] = [at |-> now, n |-> capacity + 1]

\* this step is a call of check_rate_limit (directly or from verify_token)
\* or of reset_client for client c
CallFor(c) ==
  /\ now' = now
  /\ reply'.op \in {"check_rate_limit", "reset_client", "verify_token"}
  /\ reply'.client = c

\* C29: a call of check_rate_limit or reset_client for client a leaves the
\* bucket of every other client b as it was (its tokens, its last refill,
\* whether it exists); and a one-token request of b that finds no bucket or
\* a bucket holding at least one token is allowed, whatever the state of
\* a's bucket.
C29_BucketsIndependent ==
  [][\A a, b \in Clients :
       a # b =>
         /\ CallFor(a) => buckets'[b] = buckets[b]
         /\ (Request(b) /\ (buckets[b] = NoBucket \/ buckets[b].tokens >= 1))
              => reply'.allowed]_vars

\* C29 witness state: a request of one client has just been allowed while
\* the other client's bucket is empty at this very time.
C29_Witness ==
  /\ reply.op = "check_rate_limit" /\ reply.allowed
  /\ \E a \in Clients \ {reply.client} :
       /\ buckets[a] = [tokens |-> 0, last_refill |-> now]
       /\ seen[a].n > capacity

\* this step is a call of verify_token
VerifyStep == now' = now /\ reply'.op = "verify_token"

\* the Authorization headers by what is wrong with them
MissingHeader == {<<>>}
BadFormat == {<<"Basic ", "s">>, <<"bearer ", "s">>}
EmptyToken == {<<"Bearer ">>, <<"Bearer ", " ">>}
InvalidToken == {<<"Bearer ", "a">>}
ValidToken == {<<"Bearer ", "s">>, <<"Bearer ", " ", "s", " ">>}

\* the step shows that the rate limiter was called
Consulted ==
  \/ buckets' # buckets
  \/ seen' # seen
  \/ reply'.client # <<>>
  \/ reply'.error = "Rate limit exceeded"

\* C30: verify_token calls the rate limiter only for a header that is
\* present, well-formed, carries a non-empty token that validates, and only
\* with check_rate_limit true: a request rejected for a missing header, a
\* bad format, an empty token or an invalid token is rejected for that
\* reason and leaves every bucket unchanged; with check_rate_limit false a
\* valid token succeeds, even when its bucket is exhausted, and the buckets
\* stay unchanged.
C30_RateLimitLast ==
  [][VerifyStep =>
       /\ Consulted => reply'.check /\ reply'.authorization \in ValidToken
       /\ reply'.authorization \in MissingHeader =>
            ~reply'.valid /\ reply'.error = "Missing Authorization header"
       /\ reply'.authorization \in BadFormat =>
            ~reply'.valid /\ reply'.error = "Invalid Authorization header format"
       /\ reply'.authorization \in EmptyToken =>
            ~reply'.valid /\ reply'.error = "Empty token"
       /\ reply'.authorization \in InvalidToken =>
            ~reply'.valid /\ reply'.error = "Invalid bearer token"
       /\ (reply'.authorization \in ValidToken /\ ~reply'.check) =>
            reply'.valid /\ reply'.error = ""]_vars

\* C30 witness state: a valid token has just been accepted with
\* check_rate_limit false while its client's bucket holds no token.
C30_Witness ==
  /\ reply.op = "verify_token" /\ ~reply.check /\ reply.valid
  /\ reply.authorization \in ValidToken
  /\ buckets[secret_key] = [tokens |-> 0, last_refill |-> now]

\* worker w's _add_to_cache takes the step that leaves pc, for an identity
\* that has an unexpired entry
Reinserts(w, pc) ==
  /\ wk[w].pc = pc /\ wk'[w] # wk[w]
  /\ wk[w].id \in CacheIds
  /\ now - cache[CacheIdx(wk[w].id)].last_accessed <= cache_ttl_seconds

\* the identities whose entries have not expired
Unexpired ==
  {cache[k].repo_id : k \in {j \in 1..Len(cache) :
      now - cache[j].last_accessed <= cache_ttl_seconds}}

\* C37: when _add_to_cache inserts an identity that already has an unexpired
\* entry, its LRU step removes no unexpired entry (neither another
\* identity's nor its own), and the insertion puts the new entry at the
\* place of the old one, leaving the size of the cache unchanged.
C37_ReinsertInPlace ==
  [][\A w \in Workers :
       /\ Reinserts(w, "evict_lru") => Unexpired \subseteq CacheIds'
       /\ Reinserts(w, "insert") =>
            /\ Len(cache') = Len(cache)
            /\ CacheIdx(wk[w].id)' = CacheIdx(wk[w].id)]_vars

\* a step of cleanup_workspace(i) by worker w while the directory of i is
\* there: the deletion has not succeeded (yet)
CwUndeleted(w, i) == CwStep(w, i) /\ disk'[i].kind = "repo"

\* C36 as stated: up to and including a failed deletion, cleanup_workspace(id)
\* leaves the cache entry and the lock-table entry of id exactly as they
\* were before the call.
C36_FailureLeavesEntries ==
  [][\A w \in Workers, i \in Ids :
       CwUndeleted(w, i) => cache' = cache /\ locks'[i] = locks[i]]_vars

\* C36 amended: up to and including a failed deletion, cleanup_workspace(id)
\* leaves the cache as it was and removes no lock-table entry; the only
\* change is that _get_repo_lock creates the lock-table entry of id when id
\* had none, and that entry stays when the deletion fails.  The failed
\* deletion ends the call with OSError, and the call removes the cache entry
\* and the lock-table entry only once the directory is absent.
C36_FailureKeepsEntries ==
  [][\A w \in Workers, i \in Ids :
       /\ CwUndeleted(w, i) =>
            /\ cache' = cache
            /\ locks'[i] # 0
            /\ locks[i] # 0 => locks'[i] = locks[i]
            /\ wk[w].pc = "cw_rm" => out'.w = w /\ out'.res = "OSError"
       /\ CwStep(w, i) /\ (cache' # cache \/ locks'[i] = 0) =>
            disk[i].kind = "absent"]_vars

\* C36 witness state: cleanup_workspace has just raised OSError for an
\* identity whose directory, cache entry and lock-table entry are all there.
C36_Witness ==
  /\ out.op = "cw" /\ out.res = "OSError"
  /\ disk[out.id].kind = "repo" /\ out.id \in CacheIds /\ locks[out.id] # 0

\* this step belongs to a get_or_clone_repository call of worker w
GetStep(w) ==
  /\ wk'[w] # wk[w] \/ out'.w = w
  /\ wk[w].op = "get" \/ (wk[w].pc = "idle" /\ (wk'[w].op = "get" \/ out'.op = "get"))

\* the statements of _add_to_cache
AddToCachePCs == {"evict_expired", "evict_lru", "insert"}

\* C35: a get_or_clone_repository call that ends in an error never reaches
\* _add_to_cache, and none of its steps adds a cache entry or changes the
\* access metadata of one: the only change such a call makes to the cache
\* is the removal of its own identity's expired entry by the first lookup.
C35_ErrorLeavesCache ==
  [][\A w \in Workers :
       GetStep(w) =>
         /\ (out'.w = w /\ out'.res # "ok") =>
              /\ wk[w].pc \notin AddToCachePCs
              /\ cache' = cache
         /\ (wk[w].pc \notin AddToCachePCs /\ ~(out'.w = w /\ out'.res = "ok")) =>
              \/ cache' = cache
              \/ /\ wk[w].pc = "idle"
                 /\ LET i == wk'[w].id
                    IN  /\ i \in CacheIds
                        /\ now - cache[CacheIdx(i)].last_accessed > cache_ttl_seconds
                        /\ cache' = SelectSeq(cache, LAMBDA e : e.repo_id # i)
         /\ wk[w].pc \in AddToCachePCs =>
              \/ wk'[w].pc \in AddToCachePCs
              \/ out'.w = w /\ out'.res = "ok"]_vars

\* C35 witness state: a call has just ended with the clone error that
\* followed a failed pull, after its lookup had removed the expired entry of
\* its identity, and the entry of another repository is still cached.
C35_Witness ==
  /\ out.op = "get" /\ out.res = "GitCommandError" /\ out.failed = "pull"
  /\ out.id \notin CacheIds
  /\ cache # <<>>

\* C34: whenever no call is in progress, every identity that has a cache
\* entry has its clone directory in the workspace (the model has no deletion
\* other than the manager's own).
C34_CachedImpliesOnDisk ==
  (\A w \in Workers : wk[w].pc = "idle") =>
    \A i \in CacheIds : disk[i].kind = "repo"

\* the statements at which a call waits for a per-repository lock
WaitingPCs == {"acquire", "cw_acquire"}

InCall(w) == wk[w].pc # "idle" /\ wk[w].op \in {"get", "cw"}

\* C33: with primitives that terminate and fair lock acquisition, every
\* get_or_clone_repository and cleanup_workspace call in progress eventually
\* ends (it returns or raises), and a worker that holds a per-repository
\* lock eventually holds none: whichever way the call ends (success, Git
\* error, missing or invalid SSH key, failed deletion), its lock is released.
C33_CallsEndAndRelease ==
  \A w \in Workers :
    /\ InCall(w) ~> (wk[w].pc = "idle" /\ ~Holds(w))
    /\ Holds(w) ~> ~Holds(w)

\* C33 witness state: a call has just ended outside the critical section
\* with a missing SSH key while the other worker waits for the same lock.
C33_Witness ==
  /\ out.op = "get" /\ out.res = "FileNotFoundError" /\ ~Holds(out.w)
  /\ \E v \in Workers \ {out.w} : wk[v].pc \in WaitingPCs /\ wk[v].id = out.id

\* the tokens bucket b holds once the time since its last refill is counted
Refilled(b) ==
  IF b.tokens + (now - b.last_refill) * refill_rate > capacity
    THEN capacity
    ELSE b.tokens + (now - b.last_refill) * refill_rate

\* this step is the call op on client c's bucket
BucketCall(c, op) == now' = now /\ reply'.op = op /\ reply'.client = c

\* C38: every bucket always holds between 0 and capacity tokens, whatever
\* consume, _refill and get_wait_time calls (for 0 or more tokens) are made
\* as time goes on; a consume that is rejected leaves the refilled token
\* count as it is, and one that is accepted takes exactly the tokens asked
\* for from it; _refill and get_wait_time take none.
C38_TokensInRange ==
  /\ [](\A c \in Clients :
          buckets[c] # NoBucket =>
            buckets[c].tokens >= 0 /\ buckets[c].tokens <= capacity)
  /\ [][\A c \in Clients :
          /\ BucketCall(c, "consume") =>
               /\ reply'.allowed <=> Refilled(buckets[c]) >= reply'.tokens
               /\ buckets'[c].tokens =
                    IF reply'.allowed THEN Refilled(buckets[c]) - reply'.tokens
                    ELSE Refilled(buckets[c])
          /\ BucketCall(c, "_refill") \/ BucketCall(c, "get_wait_time") =>
               buckets'[c].tokens = Refilled(buckets[c])]_vars

\* C38 witness state: a consume for all the tokens of a bucket that had
\* been refilled up to its capacity has just been accepted, leaving 0.
C38_Witness ==
  /\ reply.op = "consume" /\ reply.allowed
  /\ reply.tokens = capacity /\ capacity = MaxCapacity
  /\ buckets[reply.client].tokens = 0
  /\ now > 0

\* the call has returned
Returned == flow.pc = "done"

\* C31: a call that found no changes returns success true, the message
\* "No changes to commit", files_changed 0, no commit hash, pushed false and
\* changelog_updated false, and has written no changelog, staged nothing,
\* committed nothing and not pushed, whatever confirm_push is.
C31_NoChangesNoEffects ==
  Returned /\ flow.changes = 0 =>
    /\ flow.result.success
    /\ flow.result.message = "No changes to commit"
    /\ flow.result.files_changed = 0
    /\ flow.result.commit_hash = 0
    /\ ~flow.result.pushed
    /\ ~flow.result.changelog_updated
    /\ flow.did = {} /\ flow.push = "none"

\* C31 witness state: a call with confirm_push true has returned after the
\* change tracker found nothing.
C31_Witness ==
  Returned /\ flow.changes = 0 /\ flow.confirm_push /\ flow.result.success

\* C39: in every result, pushed is true only if confirm_push was true and a
\* commit was created (a commit hash, success true); push_to_remote is
\* called only after the commit was created; and when it fails or finds no
\* remote, the result still has success true, the commit hash and pushed
\* false.
C39_PushAfterCommit ==
  /\ "push" \in flow.did => "commit" \in flow.did
  /\ Returned =>
       /\ flow.result.pushed =>
            /\ flow.confirm_push /\ "commit" \in flow.did
            /\ flow.result.commit_hash # 0 /\ flow.result.success
       /\ flow.push \notin {"none", "ok"} =>
            /\ flow.result.success
            /\ flow.result.commit_hash # 0
            /\ ~flow.result.pushed

====
